---- MODULE Spec2Model ----
(***************************************************************************)
(* Model of judge_micro: the sandbox execution engine                      *)
(* (services/micro.py: JudgeMicroservice.run_microservice and              *)
(* JudgeMicroservice.optimized_batch_test) and the HTTP batch endpoint     *)
(* (api/routes/judge.py).  One engine invocation runs at a time in Spec;   *)
(* every container-driver call is one step that either returns or raises.  *)
(***************************************************************************)
EXTENDS Integers, Sequences, FiniteSets, TLC

\* ------------------------------------------------------------------ bounds
\* Driver calls that may raise during one invocation.
MaxFaults == 1
\* Longest configs list handed to optimized_batch_test.
MaxConfigs == 2
\* Longest tests list handed to batch_submit.
MaxTests == 5
MaxInvocations == 2
\* Most members of an archive handed to _extract_result_from_tar.
MaxMembers == 2
\* Most containers one OJMicroserviceFast instance starts.
MaxContainers == 2
\* Most calls made on one OJMicroserviceFast instance.
MaxSubmissions == 3
\* Largest timeout, in seconds, passed to run_custom_command.
MaxWait == 2

\* ------------------------------------------------------- program constants
\* Python's None for an absent numeric field (exit_code, timings, timeouts).
None == -1
\* executor = ThreadPoolExecutor(max_workers=4)
max_workers == 4
\* Exit code of the in-container `timeout` utility when it kills the command.
TimeoutExit == 124
\* Default compile timeout, getattr(setting, 'compile_timeout', 30).
DefaultCompileTimeout == 30
\* Default execution timeout, setting.container_timeout.
DefaultExecutionTimeout == 10

\* Languages handed to the engine; "ruby" is not a key of DOCKER_IMAGES.
DOCKER_IMAGES == {"c", "python"}
Languages == DOCKER_IMAGES \cup {"ruby"}
\* language.startswith('python')
is_python(language) == language = "python"

\* Mutant of Unsupported: the language is not looked at on entry.
Unsupported_unchecked(lang) == FALSE
\* if language not in self.DOCKER_IMAGES: raise ValueError(...)
Unsupported(lang) == lang \notin DOCKER_IMAGES

\* "maximum_limits" of GET /limits.
MaxCompileTimeout == 300
MaxExecutionTimeout == 60
\* (compile_timeout, execution_timeout) arguments: both None, or explicit,
\* within the maxima or above them.
TimeoutArgs == {<<None, None>>, <<3, 2>>,
                <<MaxCompileTimeout + 1, MaxExecutionTimeout + 1>>}
\* The same for optimized_batch_test: the default and an explicit one.
BatchTimeoutArgs == {<<None, 2>>}
\* compile_timeout if compile_timeout is not None else default
timeout_val(arg, default) == IF arg # None THEN arg ELSE default

\* Exit codes an exec can return: success, some other failure, timeout kill.
ExitCodes == {0, 1, TimeoutExit}
\* Wall time an exec may take, against its limit t: exactly t, or over t.
Durations(t) == {t, t + 1}

\* ------------------------------------------------------------ result.json
\* What the runner may leave in /app/result.json as (status, match); "NONE"
\* is a JSON object without a status key.
RunnerResults ==
    { <<"SUCCESS", "true">>, <<"SUCCESS", "false">>, <<"NONE", "null">> }
NoFile == [present |-> FALSE, valid |-> FALSE, status |-> "NONE",
           match |-> "null", of |-> 0]
\* A result.json written by the test exec that ran against config number c:
\* either JSON text of a runner result, or bytes json.loads rejects.
FileOf(r, c) == [present |-> TRUE, valid |-> TRUE, status |-> r[1],
                 match |-> r[2], of |-> c]
BadFile(c) == [present |-> TRUE, valid |-> FALSE, status |-> "NONE",
               match |-> "null", of |-> c]
\* Effects of one `make test` on result.json: writes it, or leaves it alone.
KeepFile == [present |-> FALSE, valid |-> TRUE, status |-> "NONE",
             match |-> "null", of |-> 0]
Writes(c) == {KeepFile} \cup {FileOf(r, c) : r \in RunnerResults} \cup {BadFile(c)}
AfterWrite(old, w) == IF w = KeepFile THEN old ELSE w

\* --------------------------------------------------------------- verdicts
\* A result dict of the engine.  Absent keys are "NONE" / "null" / None.
\* `of` is the config number whose test exec wrote the result.json the
\* verdict was decoded from (0: the verdict was made by the engine).
Verdict(status, match, exit_code, ctime, ttime, idx, of) ==
    [status |-> status, match |-> match, exit_code |-> exit_code,
     compile_execution_time |-> ctime, test_execution_time |-> ttime,
     config_index |-> idx, of |-> of]

VARIABLES
    continue_on_timeout, \* self.continue_on_timeout
    mode,                \* "none" | "single" | "batch": the running method
    language, nconfigs, compile_timeout_val, execution_timeout_val,
    pc,                  \* position in the running method
    container,           \* local `container` is bound (create returned)
    cstate,              \* the container in the runtime
    calls,               \* driver calls issued by this invocation, in order
    faults,              \* driver calls that raised in this invocation
    fs,                  \* /app in the container
    now, compile_start_time, test_start_time, compile_execution_time,
    compile_result,      \* compile_result.exit_code (None before it exists)
    exit_code,           \* exec_result.exit_code of the last test exec
    i,                   \* loop index of optimized_batch_test (1-based)
    results,             \* local `results` list of optimized_batch_test
    ret,                 \* value of the return statement that was executed
    returned,            \* what the caller received
    response,            \* JudgeResponse.status made by _execute_judge_sync
    fresh,               \* per config: the verdict of a fresh single run
                         \* under the runner behaviour the batch observed
    \* batch_submit (api/routes/judge.py)
    api_pc,              \* position in batch_submit
    tests,               \* request.tests
    show_progress,       \* request.show_progress
    tasks,               \* per task: "queued" | "running" | "done" in the pool
    task_result,         \* per task: the JudgeResponse of its future
    overtaken,           \* some task finished before an earlier one did
    health,              \* get_service_status: "idle" | "running" | "answered"
    api_results,         \* local `results` of batch_submit
    summary,             \* the summary dict of the BatchJudgeResponse
    \* invocations running side by side on the one JudgeMicroservice
    threads,             \* per invocation: its method, position and locals
    daemon,              \* the container runtime behind self.docker_client
    http,                \* the POST /judge/submit request being served
    twin,                \* one call made twice, logging on and logging off
    decoded,             \* result dicts converted to responses, in order
    extracted,           \* the archive get_archive returned and what was read
    fast,                \* an OJMicroserviceFast instance and the containers it made
    custom               \* one OJMicroserviceExtended.run_custom_command call

vars == <<continue_on_timeout, mode, language, nconfigs, compile_timeout_val,
          execution_timeout_val, pc, container, cstate, calls, faults, fs, now,
          compile_start_time, test_start_time, compile_execution_time,
          compile_result, exit_code, i, results, ret, returned, response,
          fresh, api_pc, tests, show_progress, tasks, task_result, overtaken,
          health, api_results, summary, threads, daemon, http, twin, decoded,
          extracted, fast, custom>>

\* The runs made twice and the conversions, which no request touches.
side == <<twin, decoded, extracted, fast, custom>>

\* Invocations on worker threads and the runtime they share.
shared == <<threads, daemon>>

\* One invocation's state, and the whole of the engine.
invocation == <<continue_on_timeout, mode, language, nconfigs,
                compile_timeout_val, execution_timeout_val, pc, container,
                cstate, calls, faults, fs, now, compile_start_time,
                test_start_time, compile_execution_time, compile_result,
                exit_code, i, results, ret, returned, response, fresh>>
engine == <<invocation, shared>>

api == <<api_pc, tests, show_progress, tasks, task_result, overtaken,
         health, api_results, summary>>

\* Variables of the sandbox and the clock, left alone by pure control steps.
config == <<continue_on_timeout, mode, language, nconfigs,
            compile_timeout_val, execution_timeout_val>>

\* An invocation that has not been called, and a runtime without containers.
\* `container` is the method's local handle (0: None); of the runtime the
\* model keeps who created each container, who issued calls on it and how
\* many of its execs are in progress.
Invocations == 1..MaxInvocations
NoThread == [method |-> "none", pc |-> "idle", container |-> 0, left |-> 0]
NoDaemon == [ids |-> 0, creator |-> [c \in Invocations |-> 0],
             callers |-> [c \in Invocations |-> {}],
             execs |-> [c \in Invocations |-> 0]]

\* The two runs of one call: run[TRUE] is made with show_logs (show_progress)
\* set and run[FALSE] without; of each the model keeps its position, the
\* driver calls it issued, the statuses it answers, the number of lines it
\* printed and the configs left in the batch loop.
NoRun == [pc |-> "idle", calls |-> <<>>, out |-> <<>>, stdout |-> 0, left |-> 0]
NoTwin == [method |-> "none", is_python |-> FALSE, configs |-> 0,
           run |-> [show \in BOOLEAN |-> NoRun]]

\* Nothing was fetched yet.  `archive` is the tar stream as the sequence of
\* its members, `content` what _extract_result_from_tar returned (Raised:
\* it raised, or get_archive did) and `status` the status of the verdict.
Raised == [valid |-> FALSE, status |-> "raise", match |-> "null"]
NoArchive == [fetched |-> FALSE, archive |-> <<>>, content |-> Raised,
              status |-> "NONE"]

\* OJMicroserviceFast.DOCKER_IMAGES: the languages the instance serves.
FAST_DOCKER_IMAGES == {"c", "cpp"}
\* The threads that call into the one module-level instance oj_fast.
FastCalls == {1, 2}
\* What a call returned: the dict's status and, for a decoded result.json,
\* the submission whose user code and whose config produced it.
NoOut == [n |-> 0, status |-> "NONE", code |-> 0, config |-> 0]
\* A thread outside any call.  n numbers the submission (its user code and
\* config), container is the local variable of run_test_fast.
NoCall == [pc |-> "idle", method |-> "none", language |-> "c", n |-> 0,
           container |-> 0, out |-> NoOut]
\* self.containers = {} (0: no entry for the language), no container made
\* yet by the daemon, no call made, no driver fault, cleanup_all not called,
\* no call entered while another was under way.
NoPool == [containers |-> [l \in FAST_DOCKER_IMAGES |-> 0], docker |-> <<>>,
           calls |-> [t \in FastCalls |-> NoCall], submitted |-> 0,
           faults |-> 0, cleaned |-> FALSE, overlapped |-> FALSE]

\* run_custom_command not called yet.  cstate is the state of the container
\* the call started ("none" before containers.run), waited the seconds spent
\* in container.wait, result the StatusCode wait returned, written whether
\* the command left a result.json in the bound directory, status the status
\* of the dict returned.
NoCommand == [pc |-> "idle", language |-> "c", timeout |-> 0,
              cstate |-> "none", waited |-> 0, result |-> None,
              written |-> FALSE, status |-> "NONE", faults |-> 0]

\* No request yet: pc is "idle", then "queued" (handed to the pool),
\* "running" (a worker is inside _execute_judge_sync) and "answered";
\* user_code is the submitted source as a sequence of tokens, status_code
\* the HTTP status of the answer (0: none yet).
NoRequest == [pc |-> "idle", user_code |-> <<>>, status_code |-> 0]

NoSummary == [total_tests |-> 0, success_count |-> 0, error_count |-> 0,
              success_rate |-> <<0, 1>>]

\* /app of a new container: `user` counts the writes of the user's source,
\* `config` is the number of the config in config.json (0: none), `built`
\* says the build artifacts exist, `result` is result.json and `staged` the
\* archive last unpacked by put_archive.
EmptyFs == [user |-> 0, config |-> 0, built |-> FALSE, result |-> NoFile,
            staged |-> <<>>]

\* user.py, user.c or user.cpp
user_filename(lang) ==
    IF is_python(lang) THEN "user.py"
    ELSE IF lang = "c" THEN "user.c" ELSE "user.cpp"
UserFilenames == {"user.py", "user.c", "user.cpp"}

\* The archives of the three builders, as sequences of (name, data) entries:
\* the data of config.json is the number of the config.
create_file_tar(filename, cfg) ==
    <<[name |-> filename, data |-> 0], [name |-> "config.json", data |-> cfg]>>
create_user_code_tar(filename) == <<[name |-> filename, data |-> 0]>>
\* Mutant of create_config_tar: the user's source is packed again as well.
create_config_tar_with_source(cfg) == create_file_tar("user.c", cfg)
create_config_tar(cfg) == <<[name |-> "config.json", data |-> cfg]>>

\* One entry is unpacked into /app, overwriting the file of its name.
Unpack(dir, entry) ==
    IF entry.name = "config.json" THEN [dir EXCEPT !.config = entry.data]
    ELSE IF entry.name \in UserFilenames THEN [dir EXCEPT !.user = @ + 1]
    ELSE dir
RECURSIVE UnpackAll(_, _)
UnpackAll(dir, tar) ==
    IF tar = <<>> THEN dir ELSE UnpackAll(Unpack(dir, Head(tar)), Tail(tar))
\* container.put_archive('/app', tar) when it returns.
put_archive(dir, tar) == [UnpackAll(dir, tar) EXCEPT !.staged = tar]

Init ==
    /\ continue_on_timeout \in BOOLEAN
    /\ mode = "none"
    /\ language = "c"
    /\ nconfigs = 0
    /\ compile_timeout_val = DefaultCompileTimeout
    /\ execution_timeout_val = DefaultExecutionTimeout
    /\ pc = "idle"
    /\ container = FALSE
    /\ cstate = "absent"
    /\ calls = <<>>
    /\ faults = 0
    /\ fs = EmptyFs
    /\ now = 0
    /\ compile_start_time = 0
    /\ test_start_time = 0
    /\ compile_execution_time = 0
    /\ exit_code = None
    /\ i = 0
    /\ results = <<>>
    /\ ret = <<>>
    /\ returned = <<>>
    /\ response = "NONE"
    /\ fresh = <<>>
    /\ compile_result = None
    /\ api_pc = "idle"
    /\ tests = <<>>
    /\ show_progress = FALSE
    /\ tasks = <<>>
    /\ task_result = <<>>
    /\ overtaken = FALSE
    /\ health = "idle"
    /\ api_results = <<>>
    /\ summary = NoSummary
    /\ threads = [t \in Invocations |-> NoThread]
    /\ daemon = NoDaemon
    /\ http = NoRequest
    /\ twin = NoTwin
    /\ decoded = <<>>
    /\ extracted = NoArchive
    /\ fast = NoPool
    /\ custom = NoCommand

\* ------------------------------------------------------- container driver
\* The runtime's container after each call that returns.  stop leaves a
\* container that was never started as it is; remove deletes it.
DockerCreate(c) == "created"
DockerStart(c) == "running"
DockerStop(c) == IF c = "running" THEN "exited" ELSE c
DockerRemove(c) == "removed"
\* A container of this invocation still exists in the runtime.
Exists(c) == c \in {"created", "running", "exited"}

clock == <<now, compile_start_time, test_start_time, compile_execution_time,
           compile_result>>
loop == <<i, results, fresh>>
output == <<returned, response>>

\* ------------------------------------------------- run_microservice (4.D)
\* {"status": "ERROR", "message": str(e), ...} of the outer except.
ErrorVerdict == Verdict("ERROR", "null", None, None, None, None, 0)

\* Mutants of compile_outcome: the two nonzero exits crossed; a nonzero
\* exit within the limit taken for success.
compile_outcome_crossed(wall, limit, code) ==
    IF wall > limit THEN "WALL_TIMEOUT"
    ELSE IF code # 0
         THEN IF code = TimeoutExit THEN "COMPILE_ERROR" ELSE "COMPILE_TIMEOUT"
         ELSE "OK"
compile_outcome_ignores_exit(wall, limit, code) ==
    IF wall > limit THEN "WALL_TIMEOUT" ELSE "OK"
\* A third: exit 0 within the limit taken for a failed compilation.
compile_outcome_rejects_zero(wall, limit, code) ==
    IF wall > limit THEN "WALL_TIMEOUT"
    ELSE IF code = TimeoutExit THEN "COMPILE_TIMEOUT" ELSE "COMPILE_ERROR"

\* The branch taken after the compile exec returned.
compile_outcome(wall, limit, code) ==
    IF wall > limit THEN "WALL_TIMEOUT"
    ELSE IF code # 0
         THEN IF code = TimeoutExit THEN "COMPILE_TIMEOUT" ELSE "COMPILE_ERROR"
         ELSE "OK"

\* The branch run_microservice takes after the test exec returned.
test_outcome(cot, wall, limit, code) ==
    IF cot THEN "COLLECT"
    ELSE IF wall > limit THEN "WALL_TIMEOUT"
    ELSE IF code = TimeoutExit THEN "TIMEOUT"
    ELSE "COLLECT"

\* Step 6: the verdict made from /app/result.json (or from failing to read it).
collect_verdict(file, code, ctime, ttime) ==
    IF file.present /\ file.valid
    THEN Verdict(file.status, file.match, None, ctime, ttime, None, file.of)
    ELSE Verdict("ERROR", "null", code, None, None, None, 0)

\* Entry of run_microservice: the language check, then the locals.
run_microservice(lang, ct, et) ==
    /\ pc = "idle"
    /\ mode' = "single"
    /\ language' = lang
    /\ nconfigs' = 1
    /\ compile_timeout_val' = timeout_val(ct, DefaultCompileTimeout)
    /\ execution_timeout_val' = timeout_val(et, DefaultExecutionTimeout)
    /\ pc' = IF Unsupported(lang) THEN "raised" ELSE "create"
    /\ container' = FALSE
    /\ cstate' = "absent"
    /\ calls' = <<>>
    /\ faults' = 0
    /\ fs' = EmptyFs
    /\ now' = 0
    /\ compile_start_time' = 0
    /\ test_start_time' = 0
    /\ compile_execution_time' = 0
    /\ exit_code' = None
    /\ i' = 0
    /\ results' = <<>>
    /\ ret' = <<>>
    /\ returned' = <<>>
    /\ response' = IF Unsupported(lang) THEN "ERROR" ELSE "NONE"
    /\ fresh' = <<>>
    /\ compile_result' = None
    /\ UNCHANGED <<continue_on_timeout, shared, api>>

\* The driver call raises: one more fault of this invocation.
Raises == faults < MaxFaults /\ faults' = faults + 1

\* 1. self.docker_client.containers.create(...)
rm_create ==
    /\ mode = "single" /\ pc = "create"
    /\ calls' = Append(calls, "create")
    /\ \/ /\ cstate' = DockerCreate(cstate)
          /\ container' = TRUE
          /\ pc' = "start"
          /\ UNCHANGED <<faults, ret>>
       \/ /\ Raises
          /\ ret' = <<ErrorVerdict>>
          /\ pc' = "finally"
          /\ UNCHANGED <<cstate, container>>
    /\ UNCHANGED <<side, http,
                   shared, api, config, fs, clock, exit_code, loop, output>>

\* container.start()
rm_start ==
    /\ mode = "single" /\ pc = "start"
    /\ calls' = Append(calls, "start")
    /\ \/ /\ cstate' = DockerStart(cstate)
          /\ pc' = "put"
          /\ UNCHANGED <<faults, ret>>
       \/ /\ Raises
          /\ ret' = <<ErrorVerdict>>
          /\ pc' = "finally"
          /\ UNCHANGED cstate
    /\ UNCHANGED <<side, http,
                   shared, api, config, container, fs, clock, exit_code, loop, output>>

\* 2-3. container.put_archive('/app', _create_file_tar(...)); for Python the
\* skipped compilation sets compile_start_time and compile_execution_time.
rm_put_archive ==
    /\ mode = "single" /\ pc = "put"
    /\ calls' = Append(calls, "put_archive")
    /\ \/ /\ fs' = put_archive(fs,
                       create_file_tar(user_filename(language), 1))
          /\ pc' = IF is_python(language) THEN "test" ELSE "compile"
          /\ compile_start_time' = now
          /\ compile_execution_time' =
                 IF is_python(language) THEN 0 ELSE compile_execution_time
          /\ UNCHANGED <<faults, ret>>
       \/ /\ Raises
          /\ ret' = <<ErrorVerdict>>
          /\ pc' = "finally"
          /\ UNCHANGED <<fs, compile_start_time, compile_execution_time>>
    /\ UNCHANGED <<side, http,
                   shared, api, config, container, cstate, now, test_start_time,
                   compile_result, exit_code, loop, output>>
\* The result dicts of the compile step and of the test step.
CompileTimeoutVerdict(ctime) ==
    Verdict("COMPILE_TIMEOUT", "null", None, ctime, None, None, 0)
CompileErrorVerdict(ctime) ==
    Verdict("COMPILE_ERROR", "null", None, ctime, None, None, 0)
TimeoutVerdict(ctime, ttime) ==
    Verdict("TIMEOUT", "null", None, ctime, ttime, None, 0)
TimeoutErrorVerdict(ctime, ttime) ==
    Verdict("TIMEOUT_ERROR", "null", None, ctime, ttime, None, 0)

\* 4. container.exec_run("timeout T bash -c 'make clean && make build'") and
\* the checks on its wall time and exit code.
rm_compile_exec ==
    /\ mode = "single" /\ pc = "compile"
    /\ calls' = Append(calls, "exec_build")
    /\ compile_start_time' = now
    /\ \/ \E code \in ExitCodes, wall \in Durations(compile_timeout_val) :
            LET branch == compile_outcome(wall, compile_timeout_val, code) IN
            /\ now' = now + wall
            /\ compile_execution_time' = wall
            /\ compile_result' = code
            /\ fs' = [fs EXCEPT !.built = (code = 0)]
            /\ pc' = CASE branch = "WALL_TIMEOUT" -> "compile_stop"
                        [] branch = "OK" -> "test"
                        [] OTHER -> "finally"
            /\ ret' = CASE branch = "COMPILE_TIMEOUT" ->
                              <<CompileTimeoutVerdict(wall)>>
                         [] branch = "COMPILE_ERROR" ->
                              <<CompileErrorVerdict(wall)>>
                         [] OTHER -> ret
            /\ UNCHANGED faults
       \/ /\ Raises
          /\ ret' = <<CompileErrorVerdict(0)>>
          /\ pc' = "finally"
          /\ UNCHANGED <<fs, now, compile_execution_time, compile_result>>
    /\ UNCHANGED <<side, http,
                   shared, api, config, container, cstate, test_start_time, exit_code, loop,
                   output>>

\* container.stop(timeout=1) of the compile wall-clock branch, inside the
\* try whose except answers COMPILE_ERROR.
rm_compile_stop ==
    /\ mode = "single" /\ pc = "compile_stop"
    /\ calls' = Append(calls, "stop")
    /\ \/ /\ cstate' = DockerStop(cstate)
          /\ ret' = <<CompileTimeoutVerdict(compile_execution_time)>>
          /\ UNCHANGED faults
       \/ /\ Raises
          /\ ret' = <<CompileErrorVerdict(now - compile_start_time)>>
          /\ UNCHANGED cstate
    /\ pc' = "finally"
    /\ UNCHANGED <<side, http,
                   shared, api, config, container, fs, clock, exit_code, loop, output>>

\* 5. container.exec_run of `make test`, under `timeout E` unless
\* continue_on_timeout; without the wrapper the exec may never return.
rm_test_exec ==
    /\ mode = "single" /\ pc = "test"
    /\ calls' = Append(calls, "exec_test")
    /\ test_start_time' = now
    /\ \/ \E code \in ExitCodes, wall \in Durations(execution_timeout_val),
             w \in Writes(1) :
            LET branch == test_outcome(continue_on_timeout, wall,
                                       execution_timeout_val, code) IN
            /\ now' = now + wall
            /\ exit_code' = code
            /\ fs' = [fs EXCEPT !.result = AfterWrite(fs.result, w)]
            /\ pc' = CASE branch = "WALL_TIMEOUT" -> "test_stop"
                        [] branch = "TIMEOUT" -> "finally"
                        [] OTHER -> "collect"
            /\ ret' = IF branch = "TIMEOUT"
                      THEN <<TimeoutVerdict(now + wall - compile_start_time, wall)>>
                      ELSE ret
            /\ UNCHANGED faults
       \/ /\ continue_on_timeout
          /\ pc' = "hung"
          /\ UNCHANGED <<faults, ret, fs, now, exit_code>>
       \/ /\ Raises
          /\ ret' = IF continue_on_timeout
                    THEN <<ErrorVerdict>>
                    ELSE <<TimeoutErrorVerdict(now - compile_start_time, 0)>>
          /\ pc' = "finally"
          /\ UNCHANGED <<fs, now, exit_code>>
    /\ UNCHANGED <<side, http,
                   shared, api, config, container, cstate, compile_start_time,
                   compile_execution_time, compile_result, loop, output>>

\* rm_test_stop without the return of line 194: the code would go on to
\* step 6 against the stopped container.
rm_test_stop_falls_through ==
    /\ mode = "single" /\ pc = "test_stop"
    /\ calls' = Append(calls, "stop")
    /\ \/ /\ cstate' = DockerStop(cstate)
          /\ UNCHANGED <<faults, ret>>
          /\ pc' = "collect"
       \/ /\ Raises
          /\ ret' = <<TimeoutErrorVerdict(now - compile_start_time,
                                          now - test_start_time)>>
          /\ UNCHANGED cstate
          /\ pc' = "finally"
    /\ UNCHANGED <<side, http,
                   shared, api, config, container, fs, clock, exit_code, loop, output>>

\* container.stop(timeout=1) of the test wall-clock branch, inside the try
\* whose except answers TIMEOUT_ERROR.
rm_test_stop ==
    /\ mode = "single" /\ pc = "test_stop"
    /\ calls' = Append(calls, "stop")
    /\ \/ /\ cstate' = DockerStop(cstate)
          /\ ret' = <<TimeoutVerdict(now - compile_start_time,
                                     now - test_start_time)>>
          /\ UNCHANGED faults
       \/ /\ Raises
          /\ ret' = <<TimeoutErrorVerdict(now - compile_start_time,
                                          now - test_start_time)>>
          /\ UNCHANGED cstate
    /\ pc' = "finally"
    /\ UNCHANGED <<side, http,
                   shared, api, config, container, fs, clock, exit_code, loop, output>>

\* 6. container.get_archive('/app/result.json'), _extract_result_from_tar,
\* json.loads; any exception answers ERROR with the exec's exit_code.
rm_collect ==
    /\ mode = "single" /\ pc = "collect"
    /\ calls' = Append(calls, "get_archive")
    /\ \/ /\ ret' = <<collect_verdict(fs.result, exit_code,
                                       now - compile_start_time,
                                       now - test_start_time)>>
          /\ UNCHANGED faults
       \/ /\ Raises
          /\ ret' = <<collect_verdict(NoFile, exit_code, None, None)>>
    /\ pc' = "finally"
    /\ UNCHANGED <<side, http,
                   shared, api, config, container, cstate, fs, clock, exit_code, loop, output>>

\* 7. finally: container.stop(timeout=1) when a container was created; an
\* exception leaves the try block, so container.remove() is not reached.
rm_finally_stop ==
    /\ mode = "single" /\ pc = "finally"
    /\ \/ /\ ~container
          /\ pc' = "return"
          /\ UNCHANGED <<cstate, calls, faults>>
       \/ /\ container
          /\ calls' = Append(calls, "stop")
          /\ cstate' = DockerStop(cstate)
          /\ pc' = "remove"
          /\ UNCHANGED faults
       \/ /\ container
          /\ calls' = Append(calls, "stop")
          /\ Raises
          /\ pc' = "return"
          /\ UNCHANGED cstate
    /\ UNCHANGED <<side, http,
                   shared, api, config, container, fs, clock, exit_code, loop, ret, output>>

\* Mutant of rm_finally_remove: the exception of remove() leaves the method.
rm_finally_remove_propagates ==
    /\ mode = "single" /\ pc = "remove"
    /\ calls' = Append(calls, "remove")
    /\ \/ /\ cstate' = DockerRemove(cstate)
          /\ pc' = "return"
          /\ UNCHANGED faults
       \/ /\ Raises
          /\ pc' = "raised"
          /\ UNCHANGED cstate
    /\ UNCHANGED <<side, http,
                   shared, api, config, container, fs, clock, exit_code, loop, ret, output>>

\* finally: container.remove(); its exception is swallowed.
rm_finally_remove ==
    /\ mode = "single" /\ pc = "remove"
    /\ calls' = Append(calls, "remove")
    /\ \/ /\ cstate' = DockerRemove(cstate)
          /\ UNCHANGED faults
       \/ /\ Raises
          /\ UNCHANGED cstate
    /\ pc' = "return"
    /\ UNCHANGED <<side, http,
                   shared, api, config, container, fs, clock, exit_code, loop, ret, output>>

\* JudgeStatus members; a status outside them makes JudgeStatus(...) raise.
JudgeStatusValues ==
    {"SUCCESS", "COMPILE_ERROR", "COMPILE_TIMEOUT", "TIMEOUT", "RUNTIME_ERROR",
     "ERROR"}
\* Mutant of execute_judge_sync_status: the status is passed on unchecked.
execute_judge_sync_status_unchecked(result) == result.status

\* str.upper() on the status strings the model uses.
upper(str) ==
    CASE str = "success" -> "SUCCESS"
      [] str = "Compile_Error" -> "COMPILE_ERROR"
      [] str = "timeout" -> "TIMEOUT"
      [] str = "segfault" -> "SEGFAULT"
      [] OTHER -> str
\* JudgeStatus(value): the member whose value is `value` whatever its case;
\* "ValueError" stands for the exception of a value that is no member's.
JudgeStatus(value) ==
    IF upper(value) \in JudgeStatusValues THEN upper(value) ELSE "ValueError"

\* Mutant of execute_judge_sync_status: only the exact value is a member.
execute_judge_sync_status_exact(result) ==
    LET status == IF result.status = "NONE" THEN "ERROR" ELSE result.status
    IN  IF status \in JudgeStatusValues THEN status ELSE "ERROR"

\* _convert_legacy_result_to_response inside the try of _execute_judge_sync:
\* JudgeStatus(result.get('status', 'ERROR')), and ERROR when it raises.
execute_judge_sync_status(result) ==
    LET status == IF result.status = "NONE" THEN "ERROR" ELSE result.status
    IN  IF JudgeStatus(status) = "ValueError" THEN "ERROR"
        ELSE JudgeStatus(status)

\* Mutant of rm_return: the verdict leaves before the finally block ran.
rm_return_before_teardown ==
    /\ mode = "single" /\ pc \in {"finally", "return"}
    /\ returned' = ret
    /\ response' = execute_judge_sync_status(ret[1])
    /\ pc' = "done"
    /\ UNCHANGED <<side, http,
                   shared, api, config, container, cstate, calls, faults, fs, clock,
                   exit_code, loop, ret>>

\* The return statement completes after the finally block; the caller
\* _execute_judge_sync converts the dict to a JudgeResponse.
rm_return ==
    /\ mode = "single" /\ pc = "return"
    /\ returned' = ret
    /\ response' = execute_judge_sync_status(ret[1])
    /\ pc' = "done"
    /\ UNCHANGED <<side, http,
                   shared, api, config, container, cstate, calls, faults, fs, clock,
                   exit_code, loop, ret>>

RunSteps ==
    \/ rm_create \/ rm_start \/ rm_put_archive
    \/ rm_compile_exec \/ rm_compile_stop
    \/ rm_test_exec \/ rm_test_stop
    \/ rm_collect
    \/ rm_finally_stop \/ rm_finally_remove \/ rm_return

RunMicroservice ==
    \/ \E lang \in Languages, t \in TimeoutArgs :
          run_microservice(lang, t[1], t[2]) /\ UNCHANGED <<side, http>>
    \/ RunSteps

\* -------------------------------------------- optimized_batch_test (4.E)
\* [{"status": "ERROR", ..., "config_index": i} for i in range(len(configs))]
\* and [dict(error_result, config_index=i) for i in range(len(configs))].
FanOut(v, n) == [k \in 1..n |-> [v EXCEPT !.config_index = k - 1]]

\* The branch the loop body takes after the test exec returned.
obt_test_outcome(cot, wall, limit, code) ==
    IF cot THEN "COLLECT"
    ELSE IF wall > limit THEN "TIMEOUT"
    ELSE IF code = TimeoutExit THEN "TIMEOUT"
    ELSE "COLLECT"

\* The verdict of the loop body's inner try (get_archive ... append) and of
\* its except.
obt_collect_verdict(file, code, ctime, ttime, idx) ==
    IF file.present /\ file.valid
    THEN Verdict(file.status, file.match, None, ctime, ttime, idx, file.of)
    ELSE Verdict("ERROR", "null", code, ctime, ttime, idx, 0)

\* What run_microservice answers for one config in a sandbox of its own,
\* when its test exec behaves as (code, wall, w) and no driver call raises.
fresh_run(cot, limit, code, wall, w) ==
    LET branch == test_outcome(cot, wall, limit, code)
        v == IF branch = "COLLECT"
             THEN collect_verdict(AfterWrite(NoFile, w), code, None, None)
             ELSE TimeoutVerdict(None, None)
    IN  [status |-> v.status, match |-> v.match]
\* Placeholder for a config whose batch step met a driver fault.
Faulted == [status |-> "FAULT", match |-> "null"]

\* Entry of optimized_batch_test: language check, empty list, locals.
optimized_batch_test(lang, n, ct, et) ==
    /\ pc = "idle"
    /\ mode' = "batch"
    /\ language' = lang
    /\ nconfigs' = n
    /\ compile_timeout_val' = timeout_val(ct, DefaultCompileTimeout)
    /\ execution_timeout_val' = timeout_val(et, DefaultExecutionTimeout)
    /\ pc' = IF Unsupported(lang) THEN "raised"
             ELSE IF n = 0 THEN "done" ELSE "create"
    /\ container' = FALSE
    /\ cstate' = "absent"
    /\ calls' = <<>>
    /\ faults' = 0
    /\ fs' = EmptyFs
    /\ now' = 0
    /\ compile_start_time' = 0
    /\ test_start_time' = 0
    /\ compile_execution_time' = 0
    /\ exit_code' = None
    /\ i' = 0
    /\ results' = <<>>
    /\ ret' = <<>>
    /\ returned' = <<>>
    /\ response' = "NONE"
    /\ fresh' = <<>>
    /\ compile_result' = None
    /\ UNCHANGED <<continue_on_timeout, shared, api>>

\* 1. self.docker_client.containers.create(...)
obt_create ==
    /\ mode = "batch" /\ pc = "create"
    /\ calls' = Append(calls, "create")
    /\ \/ /\ cstate' = DockerCreate(cstate)
          /\ container' = TRUE
          /\ pc' = "start"
          /\ UNCHANGED <<faults, ret>>
       \/ /\ Raises
          /\ ret' = FanOut(ErrorVerdict, nconfigs)
          /\ pc' = "finally"
          /\ UNCHANGED <<cstate, container>>
    /\ UNCHANGED <<side, http,
                   shared, api, config, fs, clock, exit_code, loop, output>>

\* container.start()
obt_start ==
    /\ mode = "batch" /\ pc = "start"
    /\ calls' = Append(calls, "start")
    /\ \/ /\ cstate' = DockerStart(cstate)
          /\ pc' = "put"
          /\ UNCHANGED <<faults, ret>>
       \/ /\ Raises
          /\ ret' = FanOut(ErrorVerdict, nconfigs)
          /\ pc' = "finally"
          /\ UNCHANGED cstate
    /\ UNCHANGED <<side, http,
                   shared, api, config, container, fs, clock, exit_code, loop, output>>

\* 2. container.put_archive('/app', _create_user_code_tar(...)); for Python
\* the loop starts right away.
obt_put_user ==
    /\ mode = "batch" /\ pc = "put"
    /\ calls' = Append(calls, "put_archive")
    /\ \/ /\ fs' = put_archive(fs,
                       create_user_code_tar(user_filename(language)))
          /\ pc' = IF is_python(language) THEN "put_config" ELSE "compile"
          /\ i' = IF is_python(language) THEN 1 ELSE i
          /\ compile_start_time' = now
          /\ compile_execution_time' =
                 IF is_python(language) THEN 0 ELSE compile_execution_time
          /\ UNCHANGED <<faults, ret>>
       \/ /\ Raises
          /\ ret' = FanOut(ErrorVerdict, nconfigs)
          /\ pc' = "finally"
          /\ UNCHANGED <<fs, i, compile_start_time, compile_execution_time>>
    /\ UNCHANGED <<side, http,
                   shared, api, config, container, cstate, now, test_start_time,
                   compile_result, exit_code, results, fresh, output>>

\* 3. The single compile exec; every failure answers one verdict per config.
obt_compile_exec ==
    /\ mode = "batch" /\ pc = "compile"
    /\ calls' = Append(calls, "exec_build")
    /\ compile_start_time' = now
    /\ \/ \E code \in ExitCodes, wall \in Durations(compile_timeout_val) :
            LET branch == compile_outcome(wall, compile_timeout_val, code) IN
            /\ now' = now + wall
            /\ compile_execution_time' = wall
            /\ compile_result' = code
            /\ fs' = [fs EXCEPT !.built = (code = 0)]
            /\ pc' = IF branch = "OK" THEN "put_config" ELSE "finally"
            /\ i' = IF branch = "OK" THEN 1 ELSE i
            /\ ret' = CASE branch = "OK" -> ret
                         [] branch = "COMPILE_ERROR" ->
                              FanOut(CompileErrorVerdict(wall), nconfigs)
                         [] OTHER ->
                              FanOut(CompileTimeoutVerdict(wall), nconfigs)
            /\ UNCHANGED faults
       \/ /\ Raises
          /\ ret' = FanOut(CompileErrorVerdict(0), nconfigs)
          /\ pc' = "finally"
          /\ UNCHANGED <<fs, now, compile_execution_time, compile_result, i>>
    /\ UNCHANGED <<side, http,
                   shared, api, config, container, cstate, test_start_time, exit_code,
                   results, fresh, output>>

\* Mutant of obt_append: the first verdict ends the loop.
obt_append_breaks(v, f) ==
    /\ results' = Append(results, v)
    /\ fresh' = f
    /\ pc' = "finally"
    /\ ret' = Append(results, v)
    /\ UNCHANGED i

\* Mutant of obt_append: the next config starts with a compilation again.
obt_append_recompiles(v, f) ==
    /\ results' = Append(results, v)
    /\ fresh' = f
    /\ IF i < nconfigs
       THEN /\ i' = i + 1
            /\ pc' = "compile"
            /\ UNCHANGED ret
       ELSE /\ pc' = "finally"
            /\ ret' = Append(results, v)
            /\ UNCHANGED i

\* End of one loop iteration with verdict v appended: the next config, or
\* `return results` after the last one.
obt_append(v, f) ==
    /\ results' = Append(results, v)
    /\ fresh' = f
    /\ IF i < nconfigs
       THEN /\ i' = i + 1
            /\ pc' = "put_config"
            /\ UNCHANGED ret
       ELSE /\ pc' = "finally"
            /\ ret' = Append(results, v)
            /\ UNCHANGED i

\* The except of the loop body: "Test execution error".
obt_test_error(ttime) ==
    Verdict("ERROR", "null", None, compile_execution_time, ttime, i - 1, 0)

\* Mutant of obt_timeout: the 1-based loop counter as config_index.
obt_timeout_one_based(ttime) ==
    Verdict("TIMEOUT", "null", None, compile_execution_time, ttime, i, 0)

\* Another: the compile time read off the clock when the dict is built.
obt_timeout_compile_elapsed(ttime) ==
    Verdict("TIMEOUT", "null", None, now - compile_start_time, ttime, i - 1, 0)

\* The TIMEOUT dict appended by the loop body.
obt_timeout(ttime) ==
    Verdict("TIMEOUT", "null", None, compile_execution_time, ttime, i - 1, 0)

\* 4. test_start_time, then container.put_archive('/app', config tar i).
obt_put_config ==
    /\ mode = "batch" /\ pc = "put_config"
    /\ calls' = Append(calls, "put_archive")
    /\ test_start_time' = now
    /\ \/ /\ fs' = put_archive(fs, create_config_tar(i))
          /\ pc' = "test"
          /\ UNCHANGED <<faults, loop, ret>>
       \/ /\ Raises
          /\ obt_append(obt_test_error(0), Append(fresh, Faulted))
          /\ UNCHANGED fs
    /\ UNCHANGED <<side, http,
                   shared, api, config, container, cstate, now, compile_start_time,
                   compile_execution_time, compile_result, exit_code, output>>

\* container.exec_run of `make test` for config i and the timeout checks.
obt_test_exec ==
    /\ mode = "batch" /\ pc = "test"
    /\ calls' = Append(calls, "exec_test")
    /\ \/ \E code \in ExitCodes, wall \in Durations(execution_timeout_val),
             w \in Writes(i) :
            LET branch == obt_test_outcome(continue_on_timeout, wall,
                                           execution_timeout_val, code)
                f == Append(fresh, fresh_run(continue_on_timeout,
                                execution_timeout_val, code, wall, w))
            IN
            /\ now' = now + wall
            /\ exit_code' = code
            /\ fs' = [fs EXCEPT !.result = AfterWrite(fs.result, w)]
            /\ IF branch = "TIMEOUT"
               THEN obt_append(obt_timeout(now + wall - test_start_time), f)
               ELSE /\ pc' = "collect"
                    /\ fresh' = f
                    /\ UNCHANGED <<i, results, ret>>
            /\ UNCHANGED faults
       \/ /\ continue_on_timeout
          /\ pc' = "hung"
          /\ UNCHANGED <<faults, ret, fs, now, exit_code, loop>>
       \/ /\ Raises
          /\ obt_append(obt_test_error(now - test_start_time),
                        Append(fresh, Faulted))
          /\ UNCHANGED <<fs, now, exit_code>>
    /\ UNCHANGED <<side, http,
                   shared, api, config, container, cstate, compile_start_time,
                   test_start_time, compile_execution_time, compile_result,
                   output>>

\* container.get_archive('/app/result.json') ... results.append(...)
obt_collect ==
    /\ mode = "batch" /\ pc = "collect"
    /\ calls' = Append(calls, "get_archive")
    /\ \/ /\ obt_append(obt_collect_verdict(fs.result, exit_code,
                             compile_execution_time, now - test_start_time,
                             i - 1), fresh)
          /\ UNCHANGED faults
       \/ /\ Raises
          /\ obt_append(obt_collect_verdict(NoFile, exit_code,
                             compile_execution_time, now - test_start_time,
                             i - 1), [fresh EXCEPT ![i] = Faulted])
    /\ UNCHANGED <<side, http,
                   shared, api, config, container, cstate, fs, clock, exit_code, output>>

\* finally: container.stop(timeout=1) when a container was created; an
\* exception leaves the try block, so container.remove() is not reached.
obt_finally_stop ==
    /\ mode = "batch" /\ pc = "finally"
    /\ \/ /\ ~container
          /\ pc' = "return"
          /\ UNCHANGED <<cstate, calls, faults>>
       \/ /\ container
          /\ calls' = Append(calls, "stop")
          /\ cstate' = DockerStop(cstate)
          /\ pc' = "remove"
          /\ UNCHANGED faults
       \/ /\ container
          /\ calls' = Append(calls, "stop")
          /\ Raises
          /\ pc' = "return"
          /\ UNCHANGED cstate
    /\ UNCHANGED <<side, http,
                   shared, api, config, container, fs, clock, exit_code, loop, ret, output>>

\* finally: container.remove(); its exception is swallowed.
obt_finally_remove ==
    /\ mode = "batch" /\ pc = "remove"
    /\ calls' = Append(calls, "remove")
    /\ \/ /\ cstate' = DockerRemove(cstate)
          /\ UNCHANGED faults
       \/ /\ Raises
          /\ UNCHANGED cstate
    /\ pc' = "return"
    /\ UNCHANGED <<side, http,
                   shared, api, config, container, fs, clock, exit_code, loop, ret, output>>

\* The list reaches the caller after the finally block.
obt_return ==
    /\ mode = "batch" /\ pc = "return"
    /\ returned' = ret
    /\ pc' = "done"
    /\ UNCHANGED <<side, http,
                   shared, api, config, container, cstate, calls, faults, fs, clock,
                   exit_code, loop, ret, response>>

OptimizedBatchTest ==
    \/ \E lang \in Languages, n \in 0..MaxConfigs, t \in BatchTimeoutArgs :
          optimized_batch_test(lang, n, t[1], t[2]) /\ UNCHANGED <<side, http>>
    \/ obt_create \/ obt_start \/ obt_put_user
    \/ obt_compile_exec
    \/ obt_put_config \/ obt_test_exec \/ obt_collect
    \/ obt_finally_stop \/ obt_finally_remove \/ obt_return

Next == RunMicroservice \/ OptimizedBatchTest

Spec == Init /\ [][Next]_vars
\* The engine serving run_microservice calls only.
SubmitSpec == Init /\ [][RunMicroservice]_vars

\* ------------------------------------------ submit_code (POST /submit)
\* The pipeline of POST /judge/submit.  A request body that fails the
\* validation of JudgeRequest is answered 422 by the framework and
\* submit_code is not called.
DangerousTokens == {"system(\"rm -rf /\")"}
UserCodes == {<<>>, <<"int solve(int *a)", "{ *a = 42; return 0; }">>,
              <<"int solve(int *a)", "{", "system(\"rm -rf /\")", ";", "}">>}

\* Mutant of JudgeRequest_valid: every body is accepted.
JudgeRequest_accepts_all(code) == TRUE

\* user_code is not empty and holds no denylisted token.
JudgeRequest_valid(code) ==
    /\ code # <<>>
    /\ \A k \in 1..Len(code) : code[k] \notin DangerousTokens

\* POST /judge/submit: validation, then run_in_executor(executor, ...).
submit_code(code) ==
    /\ http.pc = "idle" /\ pc = "idle"
    /\ http' = IF JudgeRequest_valid(code)
               THEN [pc |-> "queued", user_code |-> code, status_code |-> 0]
               ELSE [pc |-> "answered", user_code |-> code,
                     status_code |-> 422]
    /\ UNCHANGED <<side, engine, api>>

\* A pool worker runs _execute_judge_sync(request).
execute_judge_sync(lang, ct, et) ==
    /\ http.pc = "queued"
    /\ run_microservice(lang, ct, et)
    /\ http' = [http EXCEPT !.pc = "running"]
    /\ UNCHANGED side

\* The awaited future is done: submit_code returns the JudgeResponse.
submit_code_return ==
    /\ http.pc = "running" /\ pc \in {"done", "raised"}
    /\ http' = [http EXCEPT !.pc = "answered", !.status_code = 200]
    /\ UNCHANGED <<side, engine, api>>

SubmitCode ==
    \/ \E code \in UserCodes : submit_code(code)
    \/ \E lang \in Languages, t \in TimeoutArgs :
          execute_judge_sync(lang, t[1], t[2])
    \/ RunSteps
    \/ submit_code_return

ApiSpec == Init /\ [][SubmitCode]_vars

\* ------------------------------------------- batch_submit (POST /batch)

\* Statuses of the dict run_microservice hands to _execute_judge_sync.
RunStatuses == {"SUCCESS", "COMPILE_ERROR", "TIMEOUT_ERROR", "NONE"}
NoResponse == [req |-> 0, status |-> "NONE"]

\* Mutant of gather: the results come back last task first.
gather_reversed(futures) ==
    [k \in 1..Len(futures) |-> futures[Len(futures) + 1 - k]]

\* asyncio.gather(*tasks): the results in the order of the awaitables.
gather(futures) == [k \in 1..Len(futures) |-> futures[k]]

\* Mutant of summarize: only the successful results are counted as tests.
summarize_successes_only(rs) ==
    LET success_count ==
            Cardinality({k \in 1..Len(rs) : rs[k].status = "SUCCESS"})
    IN  [total_tests |-> success_count, success_count |-> success_count,
         error_count |-> 0,
         success_rate |-> IF Len(rs) > 0 THEN <<success_count, Len(rs)>>
                          ELSE <<0, 1>>]

\* The summary dict computed from the results list.  The quotient
\* success_count / len(results) is kept as <<numerator, denominator>>, and
\* the 0 of an empty list as <<0, 1>>.
summarize(rs) ==
    LET success_count ==
            Cardinality({k \in 1..Len(rs) : rs[k].status = "SUCCESS"})
    IN  [total_tests |-> Len(rs), success_count |-> success_count,
         error_count |-> Len(rs) - success_count,
         success_rate |-> IF Len(rs) > 0 THEN <<success_count, Len(rs)>>
                          ELSE <<0, 1>>]

\* Entry of batch_submit: one run_in_executor future per test, in order.
batch_submit(n, sp) ==
    /\ api_pc = "idle" /\ health # "running"
    /\ tests' = [k \in 1..n |-> k]
    /\ show_progress' = sp
    /\ tasks' = [k \in 1..n |-> "queued"]
    /\ task_result' = [k \in 1..n |-> NoResponse]
    /\ api_results' = <<>>
    /\ api_pc' = IF sp /\ n = 0 THEN "summary" ELSE "await"
    /\ UNCHANGED <<side, http, engine, overtaken, health, summary>>

\* A free worker of the pool takes the oldest queued task.
executor_start(k) ==
    /\ k \in 1..Len(tasks)
    /\ tasks[k] = "queued"
    /\ \A j \in 1..(k - 1) : tasks[j] # "queued"
    /\ Cardinality({j \in 1..Len(tasks) : tasks[j] = "running"}) < max_workers
    /\ tasks' = [tasks EXCEPT ![k] = "running"]
    /\ UNCHANGED <<side, http,
                   engine, api_pc, tests, show_progress, task_result,
                   overtaken, health, api_results, summary>>

\* _execute_judge_sync(test_request) ends on its worker: the JudgeResponse
\* made from the dict of run_microservice becomes the future's result.
executor_finish(k, status) ==
    /\ k \in 1..Len(tasks)
    /\ tasks[k] = "running"
    /\ tasks' = [tasks EXCEPT ![k] = "done"]
    /\ task_result' = [task_result EXCEPT ![k] =
          [req |-> tests[k],
           status |-> execute_judge_sync_status(
               Verdict(status, "null", None, None, None, None, 0))]]
    /\ overtaken' = (overtaken \/ \E j \in 1..(k - 1) : tasks[j] # "done")
    /\ UNCHANGED <<side, http,
                   engine, api_pc, tests, show_progress, health, api_results,
                   summary>>

\* show_progress: `result = await task; results.append(result)`, in order.
batch_await_each ==
    /\ api_pc = "await" /\ show_progress /\ health # "running"
    /\ Len(api_results) < Len(tasks)
    /\ tasks[Len(api_results) + 1] = "done"
    /\ api_results' = Append(api_results, task_result[Len(api_results) + 1])
    /\ api_pc' = IF Len(api_results) + 1 = Len(tasks) THEN "summary" ELSE "await"
    /\ UNCHANGED <<side, http,
                   engine, tests, show_progress, tasks, task_result, overtaken,
                   health, summary>>

\* otherwise: results = await asyncio.gather(*tasks)
batch_gather ==
    /\ api_pc = "await" /\ ~show_progress /\ health # "running"
    /\ \A k \in 1..Len(tasks) : tasks[k] = "done"
    /\ api_results' = gather(task_result)
    /\ api_pc' = "summary"
    /\ UNCHANGED <<side, http,
                   engine, tests, show_progress, tasks, task_result, overtaken,
                   health, summary>>

\* The statistics and the BatchJudgeResponse.
batch_respond ==
    /\ api_pc = "summary" /\ health # "running"
    /\ summary' = summarize(api_results)
    /\ api_pc' = "done"
    /\ UNCHANGED <<side, http,
                   engine, tests, show_progress, tasks, task_result, overtaken,
                   health, api_results>>

\* GET /status: the handler calls _execute_judge_sync itself, on the event
\* loop's thread, while batch_submit is suspended at an await (or not running).
get_service_status ==
    /\ health # "running" /\ api_pc \in {"idle", "await", "done"}
    /\ health' = "running"
    /\ UNCHANGED <<side, http,
                   engine, api_pc, tests, show_progress, tasks, task_result,
                   overtaken, api_results, summary>>

\* The health check's run_microservice returned; the loop is free again.
get_service_status_return ==
    /\ health = "running"
    /\ health' = "answered"
    /\ UNCHANGED <<side, http,
                   engine, api_pc, tests, show_progress, tasks, task_result,
                   overtaken, api_results, summary>>

BatchNext ==
    \/ \E n \in 0..MaxTests, sp \in BOOLEAN : batch_submit(n, sp)
    \/ \E k \in 1..MaxTests : executor_start(k)
    \/ \E k \in 1..MaxTests, status \in RunStatuses : executor_finish(k, status)
    \/ batch_await_each \/ batch_gather \/ batch_respond
    \/ get_service_status \/ get_service_status_return

BatchSpec == Init /\ [][BatchNext]_vars

\* Every driver call returns or raises, and the interpreter runs the method
\* on: a step that is possible is eventually taken.
FairSpec == Spec /\ WF_vars(Next)

\* ------------------------------------------------------------------ claims
Last(seq) == seq[Len(seq)]
Finished == pc = "done"
Supported == language \in DOCKER_IMAGES

\* C1: when run_microservice or optimized_batch_test returns, no container
\* created by the invocation still exists, whichever driver call raised.
C1_TeardownComplete == Finished => ~Exists(cstate)

\* C2 (as stated): run_microservice returns exactly one result that carries
\* a status, and _execute_judge_sync exactly one JudgeResponse.
C2_VerdictCarriesStatus ==
    (mode = "single" /\ Supported /\ Finished) =>
        /\ Len(returned) = 1
        /\ returned[1].status # "NONE"
        /\ response \in JudgeStatusValues

\* C2 (amended): for a supported language run_microservice never raises and
\* returns exactly one result, nothing before it is done; the result carries
\* a status unless it is the runner's result.json, passed through, that had
\* none; _execute_judge_sync answers exactly one JudgeResponse with a status.
C2_ExactlyOneVerdict ==
    (mode = "single" /\ Supported) =>
        /\ pc # "raised"
        /\ ~Finished => (returned = <<>> /\ response = "NONE")
        /\ Finished =>
              /\ Len(returned) = 1
              /\ returned[1].status = "NONE" => returned[1].of # 0
              /\ response \in JudgeStatusValues
C2_Witness ==
    /\ mode = "single" /\ Finished /\ faults = 1
    /\ Len(returned) = 1 /\ returned[1].status = "TIMEOUT_ERROR"
    /\ response = "ERROR"

\* C3: COMPILE_TIMEOUT is answered only when the compile exec timed out
\* (exit 124 or wall over the compile limit); TIMEOUT only when compilation
\* succeeded or was skipped and the test exec timed out (exit 124 or wall
\* over the execution limit), in both methods.
CompileTimedOut ==
    /\ ~is_python(language)
    /\ "exec_build" \in {calls[k] : k \in 1..Len(calls)}
    /\ compile_result = TimeoutExit \/ compile_execution_time > compile_timeout_val
CompilePassed ==
    \/ is_python(language) /\ compile_result = None
    \/ compile_result = 0 /\ compile_execution_time <= compile_timeout_val
TestTimedOut ==
    /\ Last(calls) = "exec_test" \/ Last(calls) = "stop"
    /\ exit_code = TimeoutExit \/ now - test_start_time > execution_timeout_val
\* The verdicts made so far: the pending return value and the batch list.
Made == {ret[k] : k \in 1..Len(ret)} \cup {results[k] : k \in 1..Len(results)}
C3_TimeoutsNotCrossed ==
    /\ \A v \in Made : v.status = "COMPILE_TIMEOUT" => CompileTimedOut
    /\ \A v \in Made : v.status = "TIMEOUT" => CompilePassed
    /\ (mode = "single" /\ pc = "finally" /\ ret[1].status = "TIMEOUT")
          => TestTimedOut
    /\ (mode = "batch" /\ pc \in {"put_config", "finally"} /\ results # <<>>
          /\ Last(results).status = "TIMEOUT") => TestTimedOut
C3_Witness ==
    /\ mode = "batch" /\ Finished /\ Len(returned) = 2
    /\ returned[1].status = "TIMEOUT" /\ returned[2].status = "TIMEOUT"
    /\ exit_code = TimeoutExit

\* C4: optimized_batch_test over N configs returns exactly N verdicts, the
\* one at position i carrying config_index i (0-based), whatever happened
\* to each config.
C4_BatchPositions ==
    (mode = "batch" /\ Supported /\ Finished) =>
        /\ Len(returned) = nconfigs
        /\ \A k \in 1..Len(returned) : returned[k].config_index = k - 1
C4_Witness ==
    /\ mode = "batch" /\ Finished /\ Len(returned) = 2
    /\ returned[1].status = "TIMEOUT" /\ returned[2].status = "ERROR"
    /\ faults = 1

\* C5: batch_submit over N tests returns N results, result i being the
\* response to request i, whatever order the pool finished the tasks in,
\* with show_progress and without.
C5_BatchOrder ==
    api_pc = "done" =>
        /\ Len(api_results) = Len(tests)
        /\ \A k \in 1..Len(api_results) :
              /\ api_results[k].req = tests[k]
              /\ api_results[k] = task_result[k]
C5_Witness ==
    /\ api_pc = "done" /\ ~show_progress /\ overtaken
    /\ Len(api_results) = MaxTests
    /\ api_results[1].status = "ERROR" /\ api_results[2].status = "SUCCESS"

\* C6: when the single compile step of optimized_batch_test fails, no test
\* exec is issued and all N verdicts carry the same compile-failure status,
\* each with its own config_index.
CompileFailed ==
    /\ "exec_build" \in {calls[k] : k \in 1..Len(calls)}
    /\ pc # "compile"
    /\ compile_result # 0 \/ compile_execution_time > compile_timeout_val
C6_CompileFailureFanOut ==
    (mode = "batch" /\ CompileFailed) =>
        /\ \A k \in 1..Len(calls) : calls[k] \notin {"exec_test", "get_archive"}
        /\ Len(ret) = nconfigs
        /\ \A k \in 1..Len(ret) :
              /\ ret[k].status \in {"COMPILE_ERROR", "COMPILE_TIMEOUT"}
              /\ ret[k].status = ret[1].status
              /\ ret[k].config_index = k - 1
        /\ Finished => returned = ret
C6_Witness ==
    /\ mode = "batch" /\ Finished /\ CompileFailed /\ Len(returned) = 2
    /\ returned[2].status = "COMPILE_TIMEOUT"

\* C7: for a program that compiles and with no driver fault, verdict i of
\* optimized_batch_test has the status and match that run_microservice gives
\* config i in a sandbox of its own under the same runner behaviour.
C7_BatchEquivalence ==
    (mode = "batch" /\ Finished /\ faults = 0 /\ Len(fresh) = nconfigs) =>
        \A k \in 1..Len(returned) :
            /\ returned[k].status = fresh[k].status
            /\ returned[k].match = fresh[k].match

\* C8: every container that was created is eventually stopped and removed.
C8_EventuallyTornDown == Exists(cstate) ~> (cstate = "removed")

\* C9: the driver calls of one run_microservice come in the order create,
\* start, put_archive, compile exec (compiled languages), test exec,
\* get_archive, then stop and remove; a step is left out only by an exit
\* that goes to teardown, and the verdict is returned after teardown.
Canon(lang) ==
    IF is_python(lang)
    THEN <<"create", "start", "put_archive", "exec_test", "get_archive">>
    ELSE <<"create", "start", "put_archive", "exec_build", "exec_test",
           "get_archive">>
IsTeardown(c) == c \in {"stop", "remove"}
IsPrefix(a, b) == Len(a) <= Len(b) /\ \A k \in 1..Len(a) : a[k] = b[k]
C9_CallOrder ==
    mode = "single" =>
        /\ IsPrefix(SelectSeq(calls, LAMBDA c : ~IsTeardown(c)), Canon(language))
        /\ \A j, k \in 1..Len(calls) :
              (j < k /\ IsTeardown(calls[j])) => IsTeardown(calls[k])
        /\ \A k \in 1..Len(calls) :
              calls[k] = "remove" =>
                  k = Len(calls) /\ k > 1 /\ calls[k - 1] = "stop"
        /\ (container /\ pc \in {"return", "done"}) => IsTeardown(Last(calls))
        /\ returned # <<>> => pc = "done"
C9_Witness ==
    /\ mode = "single" /\ Finished /\ returned # <<>>
    /\ calls = <<"create", "start", "put_archive", "exec_build", "exec_test",
                 "get_archive", "stop", "remove">>

\* C10: an exception of stop or remove in the final teardown changes
\* nothing of the value the return statement computed, and none leaves the
\* method: the caller receives that value.
TeardownStep ==
    pc \in {"finally", "remove", "return"} =>
        /\ ret' = ret
        /\ pc' \in {"remove", "return", "done"}
        /\ pc' = "done" => returned' = ret
C10_TeardownErrorsSwallowed == [][TeardownStep]_vars
C10_Witness ==
    /\ Finished /\ faults = 1 /\ Exists(cstate)
    /\ Last(calls) = "remove"
    /\ returned = ret /\ Len(returned) = 2

\* The method is past its last step before the finally block.
Leaving == pc \in {"finally", "remove", "return", "done"}
\* The compile exec returned, and its timeout signals.
CompileReturned == compile_result # None
CompileSignalsTimeout ==
    compile_result = TimeoutExit \/ compile_execution_time > compile_timeout_val

\* C11: a compile exec that returns exit 124, or takes longer than the
\* compile timeout on the engine's clock, is answered COMPILE_TIMEOUT; one
\* that returns another nonzero exit within the timeout, COMPILE_ERROR.
C11_CompileClassified ==
    (CompileReturned /\ compile_result # 0 /\ Leaving) =>
        /\ ret # <<>>
        /\ \A k \in 1..Len(ret) :
              ret[k].status = IF CompileSignalsTimeout THEN "COMPILE_TIMEOUT"
                              ELSE "COMPILE_ERROR"

\* The test exec of the single run returned, and its timeout signals.
TestReturned == mode = "single" /\ exit_code # None
TestSignalsTimeout ==
    exit_code = TimeoutExit \/ now - test_start_time > execution_timeout_val
\* Driver calls named c issued so far.
Count(c) == Cardinality({k \in 1..Len(calls) : calls[k] = c})

\* C12: a test exec that returns exit 124, or takes longer than the
\* execution timeout on the engine's clock, is answered TIMEOUT and
\* result.json is not collected, in run_microservice and for each config of
\* optimized_batch_test.
C12_TestClassified ==
    /\ (TestReturned /\ TestSignalsTimeout /\ Leaving) =>
          /\ Len(ret) = 1 /\ ret[1].status = "TIMEOUT"
          /\ Count("get_archive") = 0
    /\ (mode = "batch" /\ pc = "collect") => ~TestSignalsTimeout


\* C13 (as stated): in run_microservice a compile exec returning exit 0 is
\* followed by the test exec, and a test exec returning exit 0 by the
\* collection of result.json.
C13_ExitZeroProceeds ==
    /\ (mode = "single" /\ compile_result = 0 /\ Last(calls) = "exec_build")
          => pc = "test"
    /\ (mode = "single" /\ exit_code = 0 /\ Last(calls) = "exec_test")
          => pc = "collect"

\* C13 (amended): exit 0 proceeds when the engine's clock saw the exec end
\* within its limit: the compile exec within the compile timeout goes on to
\* the test exec (beyond it, to the stop of the COMPILE_TIMEOUT branch); the
\* test exec goes on to get_archive when continue_on_timeout is set or it
\* ended within the execution timeout (otherwise to the stop of the TIMEOUT
\* branch).  The next driver call issued is then that step's.
C13_ExitZeroWithinLimitProceeds ==
    LET compile_in_time == compile_execution_time <= compile_timeout_val
        test_in_time == \/ continue_on_timeout
                        \/ now - test_start_time <= execution_timeout_val
    IN
    /\ (mode = "single" /\ compile_result = 0 /\ Last(calls) = "exec_build")
          => pc = IF compile_in_time THEN "test" ELSE "compile_stop"
    /\ (mode = "single" /\ exit_code = 0 /\ Last(calls) = "exec_test")
          => pc = IF test_in_time THEN "collect" ELSE "test_stop"
    /\ mode = "single" =>
          \A k \in 1..(Len(calls) - 1) :
              /\ (calls[k] = "exec_build" /\ compile_result = 0
                    /\ compile_in_time) => calls[k + 1] = "exec_test"
              /\ (calls[k] = "exec_test" /\ exit_code = 0 /\ test_in_time)
                    => calls[k + 1] = "get_archive"
C13_Witness ==
    /\ mode = "single" /\ Finished /\ compile_result = 0 /\ exit_code = 0
    /\ Count("exec_test") = 1 /\ Count("get_archive") = 1
    /\ returned[1].status = "SUCCESS" /\ returned[1].match = "true"

\* C14: with continue_on_timeout the engine's clock is still observed: a
\* test exec that took longer than the execution timeout is answered
\* TIMEOUT, in run_microservice and in optimized_batch_test.
C14_WallStillObserved ==
    continue_on_timeout =>
        /\ (TestReturned /\ Leaving /\ faults = 0
              /\ now - test_start_time > execution_timeout_val)
                => ret[1].status = "TIMEOUT"
        /\ (mode = "batch" /\ pc = "collect")
                => now - test_start_time <= execution_timeout_val

\* C15: after a test exec that returned a nonzero exit other than 124
\* within the execution timeout, result.json is still collected; a file that
\* is there and parses gives the verdict, otherwise the verdict is
\* RUNTIME_ERROR with the exec's exit code.
C15_NonzeroExitCollected ==
    (TestReturned /\ exit_code \notin {0, TimeoutExit} /\ Leaving
       /\ now - test_start_time <= execution_timeout_val) =>
        /\ Count("get_archive") = 1
        /\ Len(ret) = 1
        /\ \/ /\ fs.result.present /\ fs.result.valid
              /\ ret[1].status = fs.result.status
              /\ ret[1].match = fs.result.match
              /\ ret[1].of # 0
           \/ /\ ~(fs.result.present /\ fs.result.valid) \/ faults > 0
              /\ ret[1].status = "RUNTIME_ERROR"
              /\ ret[1].exit_code = exit_code

\* run_microservice met an exception of create, start, put_archive, an exec
\* or get_archive: it is at the finally block, and the last driver call,
\* which is none of the stops, is the one that raised.
RuntimeFault ==
    /\ mode = "single" /\ pc = "finally" /\ faults > 0
    /\ Last(calls) # "stop"

\* C16: an exception of the container runtime during create, start,
\* staging, the compile exec, the test exec or the collection is answered
\* ERROR, never another status.
C16_DriverErrorIsInternal == RuntimeFault => ret[1].status = "ERROR"

\* optimized_batch_test compiled (or skipped compiling) and is in its loop
\* or past it; the configs whose staging has been issued.
LoopEntered == mode = "batch" /\ i >= 1
Staged == IF pc = "put_config" THEN i - 1 ELSE i

\* C17: once the loop of optimized_batch_test is entered, every config
\* leaves exactly one verdict, whatever happened to it (timeout, failed
\* collection, driver exception), and the loop goes on: each later config
\* is staged and executed in the same container and gets its own verdict.
C17_BatchContinues ==
    LoopEntered =>
        /\ Count("create") = 1
        /\ Count("put_archive") = 1 + Staged
        /\ Count("exec_test") <= Staged
        /\ Count("exec_test") >= (IF pc = "test" THEN Staged - 1 ELSE Staged)
                                    - faults
        /\ pc \in {"put_config", "test", "collect", "hung"}
              => Len(results) = i - 1
        /\ Leaving => (i = nconfigs /\ Len(ret) = nconfigs /\ ret = results)
C17_Witness ==
    /\ mode = "batch" /\ Finished /\ Len(returned) = 2
    /\ returned[1].status = "ERROR" /\ returned[1].exit_code = None
    /\ returned[2].status = "SUCCESS" /\ returned[2].of = 2
    /\ Count("exec_test") = 2

First(c) ==
    IF Count(c) = 0 THEN 0
    ELSE CHOOSE k \in 1..Len(calls) :
             calls[k] = c /\ \A j \in 1..(k - 1) : calls[j] # c

\* C19: for a Python language no compile exec is ever issued; for a
\* compiled language a test exec is issued only after the compile exec of
\* the same container returned exit 0 within the compile timeout.
C19_CompiledBeforeTest ==
    /\ is_python(language) => Count("exec_build") = 0
    /\ (~is_python(language) /\ Count("exec_test") > 0) =>
          /\ Count("create") = 1 /\ Count("exec_build") = 1
          /\ First("exec_build") < First("exec_test")
          /\ compile_result = 0
          /\ compile_execution_time <= compile_timeout_val
          /\ fs.built
C19_Witness ==
    /\ mode = "single" /\ ~is_python(language) /\ Finished
    /\ First("exec_build") = 4 /\ First("exec_test") = 5
    /\ compile_result = 0 /\ returned[1].status = "SUCCESS"

\* C20: the compile time reported by run_microservice is the time that
\* passed around the compile exec alone, and the test time the time around
\* the test exec alone.
C20_TimingAroundExec ==
    (mode = "single" /\ Supported /\ Finished) =>
        /\ returned[1].compile_execution_time
              \in {None, compile_execution_time}
        /\ (exit_code # None) =>
              returned[1].test_execution_time
                  \in {None, now - test_start_time}

\* C21: all verdicts of the list one optimized_batch_test returns carry the
\* same compile time, whatever their status; once the loop was entered it
\* is the elapsed time of the single compile step.
C21_SharedCompileTime ==
    (mode = "batch" /\ Leaving) =>
        /\ \A k \in 1..Len(ret) :
              ret[k].compile_execution_time = ret[1].compile_execution_time
        /\ \A k \in 1..Len(ret) :
              LoopEntered =>
                  ret[k].compile_execution_time = compile_execution_time
        /\ Finished => returned = ret
C21_Witness ==
    /\ mode = "batch" /\ ~is_python(language) /\ Finished
    /\ Len(returned) = 2
    /\ returned[1].status = "TIMEOUT" /\ returned[2].status = "SUCCESS"
    /\ returned[1].compile_execution_time = compile_execution_time
    /\ returned[2].compile_execution_time = compile_execution_time
    /\ returned[1].test_execution_time # returned[2].test_execution_time

\* Judge pipelines the HTTP layer has started and that have not returned.
InFlight ==
    Cardinality({k \in 1..Len(tasks) : tasks[k] = "running"})
        + (IF health = "running" THEN 1 ELSE 0)

\* C22: at any time at most max_workers pipelines started by the HTTP layer
\* (submit, batch, the health check of /status) are in flight.
C22_BoundedPool == InFlight <= max_workers

\* ------------------------------------- invocations running side by side
\* The pool's workers call run_microservice and optimized_batch_test on the
\* one instance.  Each invocation issues its driver calls on the handle its
\* local `container` holds; an exec is in progress from the moment exec_run
\* is called until it returns.

\* Mutant of container_of: the handle is kept on the shared instance, so a
\* call goes to the container created last.
container_of_shared(t) == daemon.ids

\* The container the driver calls of invocation t go to.
container_of(t) == threads[t].container

\* A driver call of invocation t reaches the runtime.
DaemonCall(t) ==
    [daemon EXCEPT !.callers[container_of(t)] = @ \cup {t}]
DaemonExecBegin(t) ==
    [DaemonCall(t) EXCEPT !.execs[container_of(t)] = @ + 1]
DaemonExecEnd(t) ==
    [daemon EXCEPT !.execs[container_of(t)] = @ - 1]

Goto(t, p) == [threads EXCEPT ![t].pc = p]
\* The method returns or raises to its caller: its locals are gone.
Return(t) == [threads EXCEPT ![t] = [NoThread EXCEPT !.pc = "done"]]

\* Where an invocation goes when the work on one config is over: the next
\* config of the batch loop, or the finally block.
NextConfig(t) ==
    IF threads[t].left > 1
    THEN [threads EXCEPT ![t].pc = "put_config", ![t].left = @ - 1]
    ELSE Goto(t, "stop")

\* Where it goes once the user's code is staged and built.
TestPhase(t) ==
    IF threads[t].method = "optimized_batch_test" THEN Goto(t, "put_config")
    ELSE Goto(t, "test")

\* Where it goes when a step of the test phase fails or times out.
TestFailed(t) ==
    IF threads[t].method = "optimized_batch_test" THEN NextConfig(t)
    ELSE Goto(t, "stop")

inv_enter(t, method, n) ==
    /\ threads[t].pc = "idle"
    /\ method = "run_microservice" => n = 1
    /\ threads' = [threads EXCEPT ![t] =
            [method |-> method, pc |-> "create", container |-> 0,
             left |-> n]]
    /\ UNCHANGED <<side, http, invocation, api, daemon>>

inv_create(t, ok) ==
    /\ threads[t].pc = "create"
    /\ IF ok
       THEN LET c == daemon.ids + 1
            IN  /\ daemon' = [daemon EXCEPT !.ids = c, !.creator[c] = t]
                /\ threads' = [threads EXCEPT ![t].container = c,
                                              ![t].pc = "start"]
       ELSE /\ threads' = Return(t)
            /\ UNCHANGED daemon
    /\ UNCHANGED <<side, http, invocation, api>>

inv_start(t, ok) ==
    /\ threads[t].pc = "start"
    /\ daemon' = DaemonCall(t)
    /\ threads' = Goto(t, IF ok THEN "put" ELSE "stop")
    /\ UNCHANGED <<side, http, invocation, api>>

\* is_python is a function of the invocation's language; this is the one
\* step of an invocation that depends on it.
inv_put_archive(t, ok, is_py) ==
    /\ threads[t].pc = "put"
    /\ daemon' = DaemonCall(t)
    /\ threads' = IF ~ok THEN Goto(t, "stop")
                  ELSE IF is_py THEN TestPhase(t)
                  ELSE Goto(t, "compile")
    /\ UNCHANGED <<side, http, invocation, api>>

inv_compile_begin(t) ==
    /\ threads[t].pc = "compile"
    /\ daemon' = DaemonExecBegin(t)
    /\ threads' = Goto(t, "compiling")
    /\ UNCHANGED <<side, http, invocation, api>>

\* ok: the build passed within its limit.
inv_compile_end(t, ok) ==
    /\ threads[t].pc = "compiling"
    /\ daemon' = DaemonExecEnd(t)
    /\ threads' = IF ok THEN TestPhase(t) ELSE Goto(t, "stop")
    /\ UNCHANGED <<side, http, invocation, api>>

inv_put_config(t, ok) ==
    /\ threads[t].pc = "put_config"
    /\ daemon' = DaemonCall(t)
    /\ threads' = IF ok THEN Goto(t, "test") ELSE NextConfig(t)
    /\ UNCHANGED <<side, http, invocation, api>>

inv_test_begin(t) ==
    /\ threads[t].pc = "test"
    /\ daemon' = DaemonExecBegin(t)
    /\ threads' = Goto(t, "testing")
    /\ UNCHANGED <<side, http, invocation, api>>

\* ok: the test exec returned within its limit (or limits are not enforced).
inv_test_end(t, ok) ==
    /\ threads[t].pc = "testing"
    /\ daemon' = DaemonExecEnd(t)
    /\ threads' = IF ok THEN Goto(t, "collect") ELSE TestFailed(t)
    /\ UNCHANGED <<side, http, invocation, api>>

inv_collect(t) ==
    /\ threads[t].pc = "collect"
    /\ daemon' = DaemonCall(t)
    /\ threads' = TestFailed(t)
    /\ UNCHANGED <<side, http, invocation, api>>

inv_stop(t, ok) ==
    /\ threads[t].pc = "stop"
    /\ daemon' = DaemonCall(t)
    /\ threads' = IF ok THEN Goto(t, "remove") ELSE Return(t)
    /\ UNCHANGED <<side, http, invocation, api>>

inv_remove(t) ==
    /\ threads[t].pc = "remove"
    /\ daemon' = DaemonCall(t)
    /\ threads' = Return(t)
    /\ UNCHANGED <<side, http, invocation, api>>

ConcurrentNext ==
    \E t \in Invocations :
        \/ \E method \in {"run_microservice", "optimized_batch_test"},
              n \in 1..MaxConfigs : inv_enter(t, method, n)
        \/ \E ok \in BOOLEAN : inv_create(t, ok)
        \/ \E ok \in BOOLEAN : inv_start(t, ok)
        \/ \E ok \in BOOLEAN, is_py \in BOOLEAN : inv_put_archive(t, ok, is_py)
        \/ inv_compile_begin(t)
        \/ \E ok \in BOOLEAN : inv_compile_end(t, ok)
        \/ \E ok \in BOOLEAN : inv_put_config(t, ok)
        \/ inv_test_begin(t)
        \/ \E ok \in BOOLEAN : inv_test_end(t, ok)
        \/ inv_collect(t)
        \/ \E ok \in BOOLEAN : inv_stop(t, ok)
        \/ inv_remove(t)

ConcurrentSpec == Init /\ [][ConcurrentNext]_vars

Executing(t) == threads[t].pc \in {"compiling", "testing"}

\* C23: whatever the interleaving of concurrent run_microservice and
\* optimized_batch_test invocations, every call on a container comes from
\* the invocation that created it, and a container never has more than one
\* exec in progress.
C23_SandboxExclusive ==
    \A c \in 1..daemon.ids :
        /\ daemon.callers[c] \subseteq {daemon.creator[c]}
        /\ daemon.execs[c] <= 1

\* Two invocations are inside an exec at the same time, each on its own
\* container.
C23_Witness ==
    \E t \in Invocations, u \in Invocations :
        /\ t # u /\ Executing(t) /\ Executing(u)
        /\ threads[t].method # threads[u].method
        /\ daemon.execs[threads[t].container] = 1
        /\ daemon.execs[threads[u].container] = 1

\* C24: run_microservice and optimized_batch_test called with a language
\* that has no runner image raise at once: no container is created and no
\* driver call is made.
C24_UnknownLanguageRejected ==
    (mode # "none" /\ ~Supported) =>
        /\ pc = "raised"
        /\ calls = <<>> /\ ~container /\ ~Exists(cstate)
        /\ ret = <<>> /\ returned = <<>>

\* optimized_batch_test was called with configs and a language without image.
C24_Witness ==
    /\ mode = "batch" /\ language = "ruby" /\ nconfigs > 0
    /\ pc = "raised" /\ calls = <<>>

\* The code is empty or holds a denylisted token.
EmptyOrDenylisted(code) ==
    code = <<>> \/ \E k \in 1..Len(code) : code[k] \in DangerousTokens

\* C25: a submit request whose user_code is empty or holds a denylisted
\* token is answered 422, and nothing of the engine runs for it: no
\* invocation, no container, no driver call.
C25_InvalidNeverReachesEngine ==
    (http.pc # "idle" /\ EmptyOrDenylisted(http.user_code)) =>
        /\ http.pc = "answered" /\ http.status_code = 422
        /\ mode = "none" /\ pc = "idle"
        /\ calls = <<>> /\ ~container /\ ~Exists(cstate)

\* The request with system("rm -rf /") in its code was answered.
C25_Witness ==
    /\ http.pc = "answered" /\ http.status_code = 422
    /\ \E k \in 1..Len(http.user_code) : http.user_code[k] \in DangerousTokens

\* C26: whatever compile_timeout and execution_timeout are requested, the
\* values the engine puts into the compile and test commands do not exceed
\* the maxima, 300 s and 60 s.
C26_TimeoutsClamped ==
    mode # "none" =>
        /\ compile_timeout_val <= MaxCompileTimeout
        /\ execution_timeout_val <= MaxExecutionTimeout

\* ------------------------------------------- show_logs and show_progress
\* One call of run_microservice (optimized_batch_test) made twice, with
\* show_logs (show_progress) on and off, the container driver answering both
\* runs alike.  A driver call returns ("ok"), raises ("raise"), and an exec
\* may also end with a nonzero exit code ("fail"), with exit code 124 ("124")
\* or after its limit on the engine's clock ("wall").
Responses == {"ok", "raise", "fail", "124", "wall"}

Called(st, c) == [st EXCEPT !.calls = Append(@, c)]
At(st, p) == [st EXCEPT !.pc = p]
Answer(st, status) == [st EXCEPT !.out = Append(@, status)]
\* return [dict(error_result, config_index=i) for i in range(len(configs))]
AnswerAll(st, status, n) == [st EXCEPT !.out = [k \in 1..n |-> status]]

\* Mutant of print: with logging on, the container's logs are fetched.
print_fetches_logs(show, st) ==
    IF show THEN [st EXCEPT !.stdout = @ + 1, !.calls = Append(@, "logs")]
    ELSE st

\* if show_logs: print(...)
print(show, st) == IF show THEN [st EXCEPT !.stdout = @ + 1] ELSE st

\* The finally block, for both methods.
finally_step(show, st, r) ==
    IF st.pc = "stop"
    THEN LET a == Called(print(show, st), "stop")
         IN  IF r = "raise" THEN At(print(show, a), "done") ELSE At(a, "remove")
    ELSE At(print(show, Called(st, "remove")), "done")

\* One driver call of run_microservice, with what follows it up to the
\* next driver call.
run_microservice_step(show, py, cot, st, r) ==
    CASE st.pc = "create" ->
            LET a == Called(print(show, st), "create")
            IN  IF r = "raise" THEN At(Answer(a, "ERROR"), "done")
                ELSE At(a, "start")
      [] st.pc = "start" ->
            LET a == Called(st, "start")
            IN  IF r = "raise" THEN At(Answer(a, "ERROR"), "stop")
                ELSE At(a, "put")
      [] st.pc = "put" ->
            LET a == Called(st, "put_archive")
            IN  IF r = "raise" THEN At(Answer(a, "ERROR"), "stop")
                ELSE IF py THEN At(print(show, print(show, a)), "test")
                ELSE At(print(show, a), "compile")
      [] st.pc = "compile" ->
            LET a == Called(st, "exec_build")
            IN  CASE r = "raise" -> At(Answer(a, "COMPILE_ERROR"), "stop")
                  [] r = "wall" -> At(print(show, a), "compile_stop")
                  [] r = "124" -> At(Answer(a, "COMPILE_TIMEOUT"), "stop")
                  [] r = "fail" -> At(Answer(a, "COMPILE_ERROR"), "stop")
                  [] OTHER -> At(print(show, a), "test")
      [] st.pc = "compile_stop" ->
            LET a == Called(st, "stop")
            IN  IF r = "raise" THEN At(Answer(a, "COMPILE_ERROR"), "stop")
                ELSE At(Answer(a, "COMPILE_TIMEOUT"), "stop")
      [] st.pc = "test" ->
            LET a == Called(st, "exec_test")
            IN  CASE r = "raise" ->
                        At(Answer(a, IF cot THEN "ERROR" ELSE "TIMEOUT_ERROR"),
                           "stop")
                  [] r = "wall" /\ ~cot -> At(print(show, a), "test_stop")
                  [] r = "124" /\ ~cot -> At(Answer(a, "TIMEOUT"), "stop")
                  [] OTHER -> At(a, "collect")
      [] st.pc = "test_stop" ->
            LET a == Called(st, "stop")
            IN  IF r = "raise" THEN At(Answer(a, "TIMEOUT_ERROR"), "stop")
                ELSE At(Answer(a, "TIMEOUT"), "stop")
      [] st.pc = "collect" ->
            LET a == Called(st, "get_archive")
            IN  IF r = "raise" THEN At(Answer(a, "ERROR"), "stop")
                ELSE At(Answer(print(show, a), "RESULT"), "stop")
      [] OTHER -> finally_step(show, st, r)

\* The loop of optimized_batch_test goes on to the next config, or ends.
next_config(show, st) ==
    IF st.left > 1 THEN [st EXCEPT !.pc = "put_config", !.left = @ - 1]
    ELSE At(print(show, st), "stop")

\* One driver call of optimized_batch_test, with what follows it.
optimized_batch_test_step(show, py, cot, n, st, r) ==
    CASE st.pc = "create" ->
            LET a == Called(print(show, st), "create")
            IN  IF r = "raise" THEN At(AnswerAll(a, "ERROR", n), "done")
                ELSE At(a, "start")
      [] st.pc = "start" ->
            LET a == Called(st, "start")
            IN  IF r = "raise" THEN At(AnswerAll(a, "ERROR", n), "stop")
                ELSE At(a, "put")
      [] st.pc = "put" ->
            LET a == Called(st, "put_archive")
            IN  IF r = "raise" THEN At(AnswerAll(a, "ERROR", n), "stop")
                ELSE IF py THEN At(print(show, a), "put_config")
                ELSE At(print(show, a), "compile")
      [] st.pc = "compile" ->
            LET a == Called(st, "exec_build")
            IN  CASE r = "raise" -> At(AnswerAll(a, "COMPILE_ERROR", n), "stop")
                  [] r = "wall" ->
                        At(AnswerAll(print(show, a), "COMPILE_TIMEOUT", n),
                           "stop")
                  [] r = "124" -> At(AnswerAll(a, "COMPILE_TIMEOUT", n), "stop")
                  [] r = "fail" -> At(AnswerAll(a, "COMPILE_ERROR", n), "stop")
                  [] OTHER -> At(print(show, a), "put_config")
      [] st.pc = "put_config" ->
            LET a == Called(print(show, st), "put_archive")
            IN  IF r = "raise" THEN next_config(show, Answer(a, "ERROR"))
                ELSE At(a, "test")
      [] st.pc = "test" ->
            LET a == Called(st, "exec_test")
            IN  CASE r = "raise" -> next_config(show, Answer(a, "ERROR"))
                  [] r = "wall" /\ ~cot ->
                        next_config(show, Answer(print(show, a), "TIMEOUT"))
                  [] r = "124" /\ ~cot ->
                        next_config(show, Answer(a, "TIMEOUT"))
                  [] OTHER -> At(a, "collect")
      [] st.pc = "collect" ->
            LET a == Called(st, "get_archive")
            IN  IF r = "raise" THEN next_config(show, Answer(a, "ERROR"))
                ELSE next_config(show, print(show, Answer(a, "RESULT")))
      [] OTHER -> finally_step(show, st, r)

\* The same call is made with logging on and with logging off.
twin_call(method, py, n) ==
    /\ twin.method = "none"
    /\ method = "run_microservice" => n = 1
    /\ twin' = [method |-> method, is_python |-> py, configs |-> n,
                run |-> [show \in BOOLEAN |->
                            [NoRun EXCEPT !.pc = "create", !.left = n]]]
    /\ UNCHANGED <<decoded, extracted, fast, custom, http, engine, api>>

\* Both runs take their next step, the driver answering r to both.
twin_step(r) ==
    /\ twin.method # "none"
    /\ \E show \in BOOLEAN : twin.run[show].pc # "done"
    /\ twin' = [twin EXCEPT !.run = [show \in BOOLEAN |->
            IF twin.run[show].pc = "done" THEN twin.run[show]
            ELSE IF twin.method = "run_microservice"
            THEN run_microservice_step(show, twin.is_python,
                     continue_on_timeout, twin.run[show], r)
            ELSE optimized_batch_test_step(show, twin.is_python,
                     continue_on_timeout, twin.configs, twin.run[show], r)]]
    /\ UNCHANGED <<decoded, extracted, fast, custom, http, engine, api>>

TwinNext ==
    \/ \E method \in {"run_microservice", "optimized_batch_test"},
          py \in BOOLEAN, n \in 1..MaxConfigs : twin_call(method, py, n)
    \/ \E r \in Responses : twin_step(r)

TwinSpec == Init /\ [][TwinNext]_vars

\* C27: two run_microservice invocations that differ only in show_logs, and
\* two optimized_batch_test invocations that differ only in show_progress,
\* given the same driver responses, issue the same driver calls in the same
\* order and answer the same statuses.
C27_ShowLogsNonInterference ==
    /\ twin.run[TRUE].calls = twin.run[FALSE].calls
    /\ twin.run[TRUE].out = twin.run[FALSE].out
    /\ twin.run[TRUE].pc = twin.run[FALSE].pc

\* A batch over two configs returned; only the run with logging on printed.
C27_Witness ==
    /\ twin.method = "optimized_batch_test" /\ twin.configs > 1
    /\ twin.run[TRUE].pc = "done" /\ Len(twin.run[TRUE].out) = twin.configs
    /\ twin.run[TRUE].stdout > 0 /\ twin.run[FALSE].stdout = 0
    /\ Len(twin.run[TRUE].calls) > 5

\* C28: in every BatchJudgeResponse total_tests is the number of input
\* tests and of returned results, success_count is the number of results
\* with status SUCCESS, success_count + error_count = total_tests, and
\* success_rate is success_count / total_tests, 0 for an empty batch.
C28_SummaryConsistent ==
    api_pc = "done" =>
        LET successes == Cardinality({k \in 1..Len(api_results) :
                                        api_results[k].status = "SUCCESS"})
        IN  /\ summary.total_tests = Len(tests)
            /\ summary.total_tests = Len(api_results)
            /\ summary.success_count = successes
            /\ summary.success_count + summary.error_count
                    = summary.total_tests
            /\ summary.success_rate[2] > 0
            /\ IF summary.total_tests = 0 THEN summary.success_rate[1] = 0
               ELSE summary.success_rate[1] * summary.total_tests
                        = summary.success_count * summary.success_rate[2]

\* A batch was answered with successes and failures among its results.
C28_Witness ==
    /\ api_pc = "done" /\ Len(tests) > 2
    /\ summary.success_count > 0 /\ summary.error_count > 0

\* ---------------------------------------------------------- compile_output
\* What the compiler writes when the build ends with the given exit code:
\* diagnostics when it fails, nothing worth keeping when it passes.
MakeDiagnostics(code) ==
    IF code # 0 THEN "user.c:3: error: expected ';' before '*' token" ELSE ""
\* `make clean >/dev/null 2>&1 && make build >/dev/null 2>&1`: both streams
\* of both commands go to /dev/null, so the exec's output holds none of it.
dev_null(text) == ""
\* compile_result.output.decode('utf-8', errors='ignore')
compile_output(code) == dev_null(MakeDiagnostics(code))

\* The compile exec ended within its limit with a failure exit code that is
\* not the timeout's, and the invocation answered COMPILE_ERROR.
AnsweredCompileError ==
    /\ Finished /\ returned # <<>> /\ CompileReturned
    /\ compile_result \notin {0, TimeoutExit}
    /\ compile_execution_time <= compile_timeout_val
    /\ \A k \in 1..Len(returned) : returned[k].status = "COMPILE_ERROR"

\* C29: a COMPILE_ERROR verdict for source that fails to compile carries a
\* non-empty compile_output, the compiler's diagnostics.
C29_CompileOutputNonEmpty ==
    AnsweredCompileError => compile_output(compile_result) # ""

\* ------------------------------------------------------ the response codec
\* Status values a result dict may carry: the engine's, the runner's in any
\* case, a word that is no status, and "NONE" for a dict without the key.
StatusStrings ==
    {"SUCCESS", "success", "Compile_Error", "timeout", "TIMEOUT_ERROR",
     "segfault", "ERROR", "NONE"}

\* _execute_judge_sync converts one more result dict.
convert_legacy_result_to_response(raw) ==
    /\ Len(decoded) < MaxConfigs
    /\ decoded' = Append(decoded,
            [raw |-> raw,
             status |-> execute_judge_sync_status([status |-> raw])])
    /\ UNCHANGED <<twin, extracted, fast, custom, http, engine, api>>

CodecNext == \E raw \in StatusStrings : convert_legacy_result_to_response(raw)

CodecSpec == Init /\ [][CodecNext]_vars

MemberNames == {<<"result.json">>, <<"old_", "result.json">>, <<"config.json">>}
\* File contents: JSON text of a result dict, or bytes json.loads rejects.
Contents ==
    {[valid |-> TRUE, status |-> "SUCCESS", match |-> "true"],
     [valid |-> TRUE, status |-> "SUCCESS", match |-> "false"],
     [valid |-> FALSE, status |-> "NONE", match |-> "null"]}
Members == [name : MemberNames, isfile : BOOLEAN, content : Contents]
Archives == UNION {[1..n -> Members] : n \in 0..MaxMembers}

\* member.name.endswith('result.json')
endswith_result_json(name) == name # <<>> /\ name[Len(name)] = "result.json"

\* member.isfile() and member.name.endswith('result.json')
IsResult(member) == member.isfile /\ endswith_result_json(member.name)

\* Mutant of extract_result_from_tar: the last matching member is read.
extract_result_from_tar_last(tar) ==
    LET hits == {k \in 1..Len(tar) : IsResult(tar[k])}
    IN  IF hits = {} THEN Raised
        ELSE tar[CHOOSE k \in hits : \A j \in hits : j <= k].content

\* for member in tar.getmembers(): ... return f.read().decode('utf-8');
\* raise Exception("Unable to find result file") after the loop.
extract_result_from_tar(tar) ==
    LET hits == {k \in 1..Len(tar) : IsResult(tar[k])}
    IN  IF hits = {} THEN Raised
        ELSE tar[CHOOSE k \in hits : \A j \in hits : k <= j].content

\* The result.json the collect step sees in what was read.
FileRead(content) ==
    IF content = Raised THEN NoFile
    ELSE [present |-> TRUE, valid |-> content.valid, status |-> content.status,
          match |-> content.match, of |-> 0]

\* Step 6 of run_microservice: get_archive returns tar (ok) or raises, the
\* result is extracted and decoded, and the verdict is made.
collect_result(tar, ok) ==
    /\ ~extracted.fetched
    /\ LET content == IF ok THEN extract_result_from_tar(tar) ELSE Raised
       IN  extracted' =
               [fetched |-> TRUE, archive |-> IF ok THEN tar ELSE <<>>,
                content |-> content,
                status |-> collect_verdict(FileRead(content), 0, None,
                                           None).status]
    /\ UNCHANGED <<twin, decoded, fast, custom, http, engine, api>>

ExtractNext == \E tar \in Archives, ok \in BOOLEAN : collect_result(tar, ok)

ExtractSpec == Init /\ [][ExtractNext]_vars

\* C31: _extract_result_from_tar returns the content of the first member,
\* in archive order, that is a regular file whose name ends with
\* 'result.json'; with no such member, with get_archive failing or with
\* content that is not valid JSON the verdict's status is ERROR.
C31_FirstResultExtracted ==
    extracted.fetched =>
        LET tar == extracted.archive
            content == extracted.content
            found == \E k \in 1..Len(tar) : IsResult(tar[k])
        IN  /\ found =>
                \E k \in 1..Len(tar) :
                    /\ IsResult(tar[k]) /\ content = tar[k].content
                    /\ \A j \in 1..(k - 1) : ~IsResult(tar[j])
            /\ ~found => content = Raised /\ extracted.status = "ERROR"
            /\ (found /\ ~content.valid) => extracted.status = "ERROR"
            /\ (found /\ content.valid) => extracted.status = content.status

\* Two members qualify and hold different contents; the first was read.
C31_Witness ==
    /\ extracted.fetched /\ Len(extracted.archive) = 2
    /\ IsResult(extracted.archive[1]) /\ IsResult(extracted.archive[2])
    /\ extracted.archive[1].content # extracted.archive[2].content
    /\ extracted.content = extracted.archive[1].content

\* ------------------------------------------------------------------ staging
Names(tar) == [k \in 1..Len(tar) |-> tar[k].name]

\* What the archive last unpacked looks like: that of run_microservice, in
\* optimized_batch_test that of a config once a config was staged, and
\* that of the user's source before.
StagedAsBuilt ==
    fs.staged # <<>> =>
        IF mode = "single"
        THEN Names(fs.staged) = <<user_filename(language), "config.json">>
        ELSE IF fs.config # 0 THEN Names(fs.staged) = <<"config.json">>
        ELSE Names(fs.staged) = <<user_filename(language)>>

\* Staging config i in optimized_batch_test: config.json becomes config i
\* and nothing else in /app changes.
StagingFrame ==
    (mode = "batch" /\ pc = "put_config" /\ pc' = "test") =>
        /\ fs'.config = i
        /\ fs'.user = fs.user /\ fs'.built = fs.built
        /\ fs'.result = fs.result

\* C32: the archive of _create_config_tar has exactly one entry, config.json,
\* that of _create_user_code_tar exactly one, the user's file, and that of
\* _create_file_tar exactly these two; so staging config i in
\* optimized_batch_test changes /app/config.json only and leaves the user's
\* source and the build artifacts as they were.
C32_StagingFrame == [](StagedAsBuilt) /\ [][StagingFrame]_vars

\* The second config of a batch over C source was staged after the first
\* one was tested.
C32_Witness ==
    /\ mode = "batch" /\ pc = "test" /\ i = 2 /\ language = "c"
    /\ fs.config = 2 /\ fs.built /\ fs.user = 1 /\ fs.result.present
    /\ Names(fs.staged) = <<"config.json">>

\* C33: in optimized_batch_test the verdict recorded for config k is decoded
\* only from a result.json that the test exec of config k wrote; when that
\* exec wrote none, the verdict is made by the engine (an error), never the
\* content an earlier config left behind.
C33_NoStaleResult ==
    mode = "batch" =>
        \A k \in 1..Len(results) :
            \/ results[k].of = k
            \/ results[k].of = 0 /\ results[k].status # "SUCCESS"

\* C34: once container.stop has been issued in run_microservice or
\* optimized_batch_test (the early stop of a wall-clock timeout included), no
\* put_archive, exec_run or get_archive follows against that container; only
\* stop and remove may follow.
C34_NoUseAfterStop ==
    \A first \in 1..Len(calls) : \A later \in (first + 1)..Len(calls) :
        calls[first] = "stop" => calls[later] \in {"stop", "remove"}

\* An early stop on a timeout path, followed by the stop and remove of the
\* finally block.
C34_Witness ==
    /\ mode = "single" /\ pc = "return"
    /\ Len(calls) >= 3
    /\ calls[Len(calls)] = "remove"
    /\ calls[Len(calls) - 1] = "stop"
    /\ calls[Len(calls) - 2] = "stop"

\* The early stop of a wall-clock timeout branch of run_microservice has just
\* been issued: the method is on its way to the finally block, whose own stop
\* has not been called yet.
EarlyStopIssued ==
    /\ mode = "single" /\ pc = "finally"
    /\ Len(calls) >= 2 /\ Last(calls) = "stop"

\* C35: in run_microservice, when the compile exec (resp. the test exec) took
\* longer than its timeout on the engine's clock, the verdict is
\* COMPILE_TIMEOUT (resp. TIMEOUT) whether the early container.stop of that
\* path succeeds or raises.
C35_TimeoutDespiteStop ==
    EarlyStopIssued =>
        /\ Len(ret) = 1
        /\ ret[1].status = IF calls[Len(calls) - 1] = "exec_build"
                           THEN "COMPILE_TIMEOUT" ELSE "TIMEOUT"

\* C36: for a Python language, whose compilation is skipped, every verdict
\* that carries a compile time reports 0, in run_microservice and in
\* optimized_batch_test alike.
C36_PythonCompileTimeZero ==
    (Supported /\ is_python(language) /\ Finished) =>
        \A k \in 1..Len(returned) :
            returned[k].compile_execution_time \in {None, 0}

\* ------------------------------------------- OJMicroserviceFast (fast.py)
\* A container as the daemon knows it, with what its /app holds: the
\* submission whose user file and whose config.json are staged (0: none) and
\* the <<code, config>> submissions that produced result.json (<<0, 0>>: no
\* such file).
NewContainer == [status |-> "running", user |-> 0, config |-> 0,
                 result |-> <<0, 0>>]

\* A driver call of the fast instance raises: ok is FALSE, one more fault.
FastFault(ok) == ok \/ fast.faults < MaxFaults

\* container.reload(); return container.status == 'running', False when
\* reload raises.
is_container_running(c, ok) == ok /\ fast.docker[c].status = "running"

\* `return {"status": "ERROR", ...}` of run_test_fast; an exception of a
\* direct get_or_create_container call reaches its caller.
FastError(t) == [NoCall EXCEPT !.out = [NoOut EXCEPT !.n = fast.calls[t].n,
                                                    !.status = "ERROR"]]

\* `return self.containers[language]`: to the caller, or to step 2 of
\* run_test_fast.
FastGot(t, c) ==
    IF fast.calls[t].method = "get_or_create_container" THEN NoCall
    ELSE [fast.calls[t] EXCEPT !.pc = "put", !.container = c]

\* A thread calls run_test_fast or get_or_create_container for a language.
fast_call(t, method, lang) ==
    /\ fast.calls[t].pc = "idle" /\ fast.submitted < MaxSubmissions
    /\ fast' = [fast EXCEPT
           !.calls[t] = [NoCall EXCEPT !.pc = "check", !.method = method,
                                       !.language = lang,
                                       !.n = fast.submitted + 1],
           !.submitted = @ + 1, !.cleaned = FALSE,
           !.overlapped = @ \/ \E u \in FastCalls : fast.calls[u].pc # "idle"]
    /\ UNCHANGED <<twin, decoded, extracted, custom, http, engine, api>>

\* The condition of get_or_create_container: no entry for the language, or
\* the pooled container is not running.
get_or_create_container_check(t, ok) ==
    /\ fast.calls[t].pc = "check"
    /\ LET c == fast.containers[fast.calls[t].language]
       IN  /\ (c # 0 /\ FastFault(ok)) \/ (c = 0 /\ ok)
           /\ fast' = [fast EXCEPT
                  !.calls[t] = IF c # 0 /\ is_container_running(c, ok)
                               THEN FastGot(t, c)
                               ELSE [@ EXCEPT !.pc = "create"],
                  !.faults = IF ok THEN @ ELSE @ + 1]
    /\ UNCHANGED <<twin, decoded, extracted, custom, http, engine, api>>

\* self.docker_client.containers.run(image, "sleep infinity", detach=True,
\* remove=False); self.containers[language] = container: the entry of the
\* language is overwritten, the container it held is not stopped or removed.
get_or_create_container_create(t, ok) ==
    /\ fast.calls[t].pc = "create"
    /\ FastFault(ok)
    /\ Len(fast.docker) < MaxContainers
    /\ LET lang == fast.calls[t].language
           c == Len(fast.docker) + 1
       IN  fast' = IF ok
               THEN [fast EXCEPT
                        !.docker = Append(@, NewContainer),
                        !.containers[lang] = c,
                        !.calls[t] = FastGot(t, c)]
               ELSE [fast EXCEPT
                        !.calls[t] =
                            IF @.method = "get_or_create_container"
                            THEN NoCall ELSE FastError(t),
                        !.faults = @ + 1]
    /\ UNCHANGED <<twin, decoded, extracted, custom, http, engine, api>>

\* 3. container.put_archive('/app', tar of this call's user file and
\* config.json); it raises for a container that no longer exists.
run_test_fast_put(t, ok) ==
    /\ fast.calls[t].pc = "put"
    /\ FastFault(ok)
    /\ LET c == fast.calls[t].container
           n == fast.calls[t].n
       IN  fast' = IF ok /\ fast.docker[c].status # "removed"
               THEN [fast EXCEPT !.docker[c].user = n, !.docker[c].config = n,
                                 !.calls[t].pc = "exec"]
               ELSE [fast EXCEPT !.calls[t] = FastError(t),
                                 !.faults = IF ok THEN @ ELSE @ + 1]
    /\ UNCHANGED <<twin, decoded, extracted, custom, http, engine, api>>

\* What `make clean && make build && make test` leaves in /app: the previous
\* result.json is cleaned away, and a build and a test that both succeed
\* write the result of the user file and config.json staged when they run.
make_clean_build_test(dir, built, wrote) ==
    [dir EXCEPT !.result = IF built /\ wrote THEN <<dir.user, dir.config>>
                           ELSE <<0, 0>>]

\* 4. container.exec_run("bash -c 'make clean ... && make build ... && make
\* test ...'"); it raises for a container that is not running.
run_test_fast_exec(t, ok, built, wrote) ==
    /\ fast.calls[t].pc = "exec"
    /\ FastFault(ok)
    /\ LET c == fast.calls[t].container
       IN  fast' = IF ok /\ fast.docker[c].status = "running"
               THEN [fast EXCEPT
                        !.docker[c] = make_clean_build_test(@, built, wrote),
                        !.calls[t].pc = "collect"]
               ELSE [fast EXCEPT !.calls[t] = FastError(t),
                                 !.faults = IF ok THEN @ ELSE @ + 1]
    /\ UNCHANGED <<twin, decoded, extracted, custom, http, engine, api>>

\* 5. container.get_archive('/app/result.json'), _extract_file_from_tar,
\* json.loads; any exception answers ERROR.  The call gets the file that is
\* in the container's /app, whoever wrote it.
run_test_fast_collect(t, ok) ==
    /\ fast.calls[t].pc = "collect"
    /\ FastFault(ok)
    /\ LET c == fast.calls[t].container
           dir == fast.docker[c]
           r == dir.result
       IN  fast' = IF ok /\ dir.status # "removed" /\ dir.result # <<0, 0>>
               THEN [fast EXCEPT
                        !.calls[t] = [NoCall EXCEPT !.out =
                            [n |-> fast.calls[t].n, status |-> "RESULT",
                             code |-> r[1], config |-> r[2]]]]
               ELSE [fast EXCEPT !.calls[t] = FastError(t),
                                 !.faults = IF ok THEN @ ELSE @ + 1]
    /\ UNCHANGED <<twin, decoded, extracted, custom, http, engine, api>>

\* The `sleep infinity` of a pooled container ends (it is killed, or the
\* daemon restarts): the container exists but is not running.
fast_container_exits(c) ==
    /\ c \in 1..Len(fast.docker)
    /\ fast.docker[c].status = "running"
    /\ fast' = [fast EXCEPT !.docker[c].status = "exited"]
    /\ UNCHANGED <<twin, decoded, extracted, custom, http, engine, api>>

\* cleanup_all: for each entry container.stop(timeout=2) and
\* container.remove() under one try whose except passes, then
\* self.containers.clear().  `failing` are the entries whose stop raises.
cleanup_all(failing) ==
    /\ \A t \in FastCalls : fast.calls[t].pc = "idle"
    /\ fast.submitted > 0 /\ ~fast.cleaned
    /\ \A l \in failing : fast.containers[l] # 0
    /\ fast.faults + Cardinality(failing) <= MaxFaults
    /\ LET pooled == {fast.containers[l] :
                         l \in {k \in FAST_DOCKER_IMAGES :
                                    fast.containers[k] # 0} \ failing}
       IN  fast' = [fast EXCEPT
               !.docker = [c \in 1..Len(@) |->
                              IF c \in pooled
                              THEN [@[c] EXCEPT !.status = "removed"]
                              ELSE @[c]],
               !.containers = [l \in FAST_DOCKER_IMAGES |-> 0],
               !.faults = @ + Cardinality(failing),
               !.cleaned = TRUE]
    /\ UNCHANGED <<twin, decoded, extracted, custom, http, engine, api>>

FastNext ==
    \/ \E t \in FastCalls, lang \in FAST_DOCKER_IMAGES,
          method \in {"run_test_fast", "get_or_create_container"} :
           fast_call(t, method, lang)
    \/ \E t \in FastCalls, ok \in BOOLEAN : get_or_create_container_check(t, ok)
    \/ \E t \in FastCalls, ok \in BOOLEAN : get_or_create_container_create(t, ok)
    \/ \E t \in FastCalls, ok \in BOOLEAN : run_test_fast_put(t, ok)
    \/ \E t \in FastCalls, ok, built, wrote \in BOOLEAN :
           run_test_fast_exec(t, ok, built, wrote)
    \/ \E t \in FastCalls, ok \in BOOLEAN : run_test_fast_collect(t, ok)
    \/ \E c \in 1..MaxContainers : fast_container_exits(c)
    \/ \E failing \in SUBSET FAST_DOCKER_IMAGES : cleanup_all(failing)

FastSpec == Init /\ [][FastNext]_vars

\* C37: after cleanup_all, every container the OJMicroserviceFast instance
\* ever started has been stopped and removed, the containers that were
\* replaced in the pool because they were found not running included (here
\* for calls made one after the other during which no driver call raised).
C37_PoolAccounted ==
    (fast.cleaned /\ fast.faults = 0 /\ ~fast.overlapped) =>
        \A c \in 1..Len(fast.docker) : fast.docker[c].status = "removed"

\* C38: the result run_test_fast returns to a call is the result.json
\* produced from that call's own user code and config, for concurrent calls
\* for one language in any interleaving and for consecutive calls.
C38_OwnResult ==
    \A t \in FastCalls :
        fast.calls[t].out.status = "RESULT" =>
            /\ fast.calls[t].out.code = fast.calls[t].out.n
            /\ fast.calls[t].out.config = fast.calls[t].out.n

\* ----------------------- OJMicroserviceExtended.run_custom_command
\* OJMicroservice.DOCKER_IMAGES, which the extended class inherits.
BASIC_DOCKER_IMAGES == {"c", "cpp"}

\* A driver call of run_custom_command raises: one more fault.
CustomFault(ok) == ok \/ custom.faults < MaxFaults
\* except Exception as e: return {"status": "ERROR", ...}
CustomError(ok) ==
    [custom EXCEPT !.pc = "returned", !.status = "ERROR",
                   !.faults = IF ok THEN @ ELSE @ + 1]

\* run_custom_command(language, user_code, config, custom_command, timeout):
\* ValueError for a language without an image, else the temporary directory
\* is written and the try block entered.
run_custom_command(lang, timeout) ==
    /\ custom.pc = "idle"
    /\ custom' = [custom EXCEPT
           !.pc = IF lang \in BASIC_DOCKER_IMAGES THEN "pull" ELSE "raised",
           !.language = lang, !.timeout = timeout]
    /\ UNCHANGED <<twin, decoded, extracted, fast, http, engine, api>>

\* self.docker_client.images.pull(image_name)
rcc_pull(ok) ==
    /\ custom.pc = "pull" /\ CustomFault(ok)
    /\ custom' = IF ok THEN [custom EXCEPT !.pc = "run"] ELSE CustomError(ok)
    /\ UNCHANGED <<twin, decoded, extracted, fast, http, engine, api>>

\* containers.run(image, command, volumes, working_dir, detach=True,
\* remove=True): the container runs the command in the background.
rcc_run(ok) ==
    /\ custom.pc = "run" /\ CustomFault(ok)
    /\ custom' = IF ok THEN [custom EXCEPT !.pc = "wait", !.cstate = "running"]
                 ELSE CustomError(ok)
    /\ UNCHANGED <<twin, decoded, extracted, fast, http, engine, api>>

\* One second passes inside container.wait(timeout=timeout).
rcc_wait_tick ==
    /\ custom.pc = "wait" /\ custom.cstate = "running"
    /\ custom.waited < custom.timeout
    /\ custom' = [custom EXCEPT !.waited = @ + 1]
    /\ UNCHANGED <<twin, decoded, extracted, fast, http, engine, api>>

\* The command of the container ends with an exit code, having written
\* result.json into the bound directory or not.
rcc_command_exits(code, wrote) ==
    /\ custom.cstate = "running"
    /\ custom' = [custom EXCEPT !.cstate = "exited", !.result = code,
                                !.written = wrote]
    /\ UNCHANGED <<twin, decoded, extracted, fast, http, engine, api>>

\* remove=True: the daemon removes the container once it has exited.
rcc_auto_remove ==
    /\ custom.cstate = "exited"
    /\ custom' = [custom EXCEPT !.cstate = "removed"]
    /\ UNCHANGED <<twin, decoded, extracted, fast, http, engine, api>>

\* result = container.wait(timeout=timeout): it returns the StatusCode of a
\* container that exited, and raises when the timeout expires first, when
\* the container is already gone, or on a driver fault.
rcc_wait(ok) ==
    /\ custom.pc = "wait" /\ CustomFault(ok)
    /\ \/ ~ok
       \/ custom.cstate # "running"
       \/ custom.waited = custom.timeout
    /\ custom' = IF ok /\ custom.cstate = "exited"
                 THEN [custom EXCEPT !.pc = "logs"]
                 ELSE CustomError(ok)
    /\ UNCHANGED <<twin, decoded, extracted, fast, http, engine, api>>

\* logs = container.logs().decode('utf-8'): it raises for a container the
\* daemon has removed.
rcc_logs(ok) ==
    /\ custom.pc = "logs" /\ CustomFault(ok)
    /\ custom' = IF ok /\ custom.cstate # "removed"
                 THEN [custom EXCEPT !.pc = "read"]
                 ELSE CustomError(ok)
    /\ UNCHANGED <<twin, decoded, extracted, fast, http, engine, api>>

\* result.json exists: its decoded content is returned (ERROR when
\* json.loads raises); otherwise COMPLETED or ERROR by the StatusCode.
rcc_read(valid) ==
    /\ custom.pc = "read"
    /\ custom' = [custom EXCEPT
           !.pc = "returned",
           !.status = IF custom.written
                      THEN (IF valid THEN "RESULT" ELSE "ERROR")
                      ELSE (IF custom.result = 0 THEN "COMPLETED"
                            ELSE "ERROR")]
    /\ UNCHANGED <<twin, decoded, extracted, fast, http, engine, api>>

CustomNext ==
    \/ \E lang \in BASIC_DOCKER_IMAGES \cup {"java"}, timeout \in 1..MaxWait :
           run_custom_command(lang, timeout)
    \/ \E ok \in BOOLEAN : rcc_pull(ok)
    \/ \E ok \in BOOLEAN : rcc_run(ok)
    \/ rcc_wait_tick
    \/ \E code \in {0, 1}, wrote \in BOOLEAN : rcc_command_exits(code, wrote)
    \/ rcc_auto_remove
    \/ \E ok \in BOOLEAN : rcc_wait(ok)
    \/ \E ok \in BOOLEAN : rcc_logs(ok)
    \/ \E valid \in BOOLEAN : rcc_read(valid)

CustomSpec == Init /\ [][CustomNext]_vars

\* C39: when run_custom_command returns, on every path (the wait timeout
\* expiring and an exception from wait or logs included), the container it
\* started is no longer running.
C39_NothingLeftRunning ==
    custom.pc = "returned" => custom.cstate # "running"
====
